---- MODULE Spec2Model ----
(***************************************************************************)
(* Message store, identity switch, inbound transports and ledger           *)
(* verification of the echo-chain messenger.                               *)
(*                                                                         *)
(* React is modelled by its commit cycle: an event handler changes state   *)
(* (address, messages); Render takes the snapshot every closure of that    *)
(* render sees (rAddress, rMessages) and runs the effects of the child     *)
(* providers; the effects of BlockchainProvider then run one per step in   *)
(* the order they are declared (load, save, switch).  A setMessages call   *)
(* made by an effect is applied to `messages` at once and marks the state  *)
(* dirty, which is what the queued update amounts to at the next render.   *)
(***************************************************************************)
EXTENDS Integers, Sequences, FiniteSets, Bags, TLC

\* ---------------------------------------------------------------- bounds
MaxMsgs == 3
MaxHandlers == 5
MaxTasks == 2
MaxHistory == 2
MaxHalfWindows == 2
NumDigests == 2
MaxClock == 3
MaxKeys == 2
MaxView == 3
MaxStamp == 3
MaxText == 2
NumKeyPairs == 3
NumNonces == 2

\* ------------------------------------------------------------- constants
MESSAGE_HASH_EXPIRY_BLOCKS == 1000

Addresses == {"A", "B"}
NoAddr == "none"
Peers == {"C"}
AddrRank == [a \in Addresses \cup Peers |->
               IF a = "A" THEN 1 ELSE IF a = "B" THEN 2 ELSE 3]

\* --------------------------------------------------------------- hashes
\* A hex string: an optional "0x" prefix (pfx counts the prefixes, so that
\* `0x${h}` of an already prefixed string is a different string), the case
\* of its letters, and the digest it spells.
HashStr == [pfx : 0..1, upper : BOOLEAN, val : 1..NumDigests]
toLowerCase(h) == [h EXCEPT !.upper = FALSE]
With0x(h) == [h EXCEPT !.pfx = @ + 1]
PlainHash(v) == [pfx |-> 0, upper |-> FALSE, val |-> v]

\* ------------------------------------------------------------- messages
\* [addr1, addr2].join("_") without the sort
createConversationIdUnsorted(addr1, addr2) ==
  <<addr1, addr2>>

\* [addr1, addr2].sort().join("_"): the pair in the order of the strings
createConversationId(addr1, addr2) ==
  IF AddrRank[addr1] <= AddrRank[addr2] THEN <<addr1, addr2>> ELSE <<addr2, addr1>>

\* The ciphertext and nonce of the message with digest v, as the byte
\* strings the wire carries, and what the relay paths keep of them.
Envelope(v) == [ciphertext |-> <<v>>, nonce |-> <<v + NumDigests>>]
EmptyEnvelope == [ciphertext |-> <<>>, nonce |-> <<>>]

\* The wire payload {messageId, conversationId, sender, recipient,
\* encryptedData, messageHash, blockNumber}.  m1 and m2 carry the same
\* (sender, hash, conversation) under two ids: one message known by its
\* provisional and its ledger id.
MkPayload(id, s, r, v) ==
  [messageId |-> id, conversationId |-> createConversationId(s, r),
   sender |-> s, recipient |-> r, encryptedData |-> Envelope(v),
   messageHash |-> PlainHash(v), blockNumber |-> 100, timestamp |-> 0]
Payloads == {MkPayload("m1", "C", "A", 1), MkPayload("m2", "C", "A", 1),
             MkPayload("m3", "C", "B", 2)}
InboxPayloads(a) == {p \in Payloads : p.recipient = a}
\* one message for every identity
OwnPayloads == {p \in Payloads : p.messageId # "m2"}
NoPayload == MkPayload("none", "C", "C", 1)

\* A StoredMessage.  addedUnder and via are history fields: the identity
\* that was active when addStoredMessage appended the entry, and the path
\* the entry came in by ("relay", "gossip" or the relay's "history").
MkStored(p, st, under, via) ==
  [id |-> p.messageId, conversationId |-> p.conversationId,
   sender |-> p.sender, recipient |-> p.recipient,
   encryptedData |-> p.encryptedData, hash |-> p.messageHash,
   status |-> st, blockNumber |-> p.blockNumber, timestamp |-> p.timestamp,
   decryptedContent |-> "undefined", direction |-> "received",
   verified |-> FALSE, expired |-> FALSE, addedUnder |-> under, via |-> via]

Ids(msgs) == {msgs[i].id : i \in 1..Len(msgs)}

VARIABLES
  address,               \* walletState.address (NoAddr for null)
  messages,              \* the messages state of BlockchainProvider
  storage,               \* localStorage: the per-identity message item
  isAccountSwitchingRef,
  previousAddressRef,
  rAddress, rMessages,   \* what the closures of the latest render hold
  msgsDirty,             \* setMessages was called since the latest render
  depAddr,               \* the address dependency changed in this commit
  pc,                    \* the effect of BlockchainProvider that runs next
  pubnubInstance,        \* userId of the relay client, NoAddr when absent
  subscribedChannels,    \* addresses whose inbox channel is subscribed
  relayMounted,          \* PubnubProvider is part of the component tree
  inboxHandlers,         \* the registered handleIncomingMessage closures (a bag)
  channel,               \* the relay's stored history of every inbox
  histTimer,             \* the pending setTimeout of the backfill effect
  p2pTopic,              \* address whose gossip inbox has a listener
  p2pTimer,              \* pending auto-initialize timer (its closure's address)
  currentAddressRef,
  tasks,                 \* suspended async continuations (a bag)
  activation,            \* history: the latest activation and what was stored
  trip,                  \* history: progress of a switch away and back
  switchInFlight,        \* history: address switched, new data not rendered
  blockNumber,           \* blockchainState.blockNumber
  chainRecord,           \* the ledger record the verify call looks up
  verifyArgs, verifyResult,
  now,                   \* Date.now(), in milliseconds
  ledger,                \* messaging.messageHashes of the chain, in commit order
  lastUpdate,            \* history: the latest updateMessageStatus call
  keyPair,               \* the keyPair state of EncryptionProvider
  keyStorage,            \* localStorage: the per-identity key items
  keysMade,              \* how many pairs generateKeyPair has returned
  filter,                \* the filter state of ChatInterface
  contactAddress,        \* the contactAddress prop of ChatInterface
  view,                  \* conversationMessages of the latest ChatInterface render
  selectedMessage,       \* the ChatMessage the verification modal shows
  batch,                 \* the locals of a running handleVerifyAll
  p2pSend,               \* history: the latest sendP2PMessage call
  contacts,              \* the contacts state of BlockchainProvider
  userProfile,           \* the userProfile state: the address it is of, or NoAddr
  approvedContacts,      \* messaging.approvedContacts of the chain: pairs <<who, contact>>
  sealed,                \* history: the latest encryptMessage call
  opened                 \* history: the latest decryptMessage call

storeVars == <<address, messages, storage, isAccountSwitchingRef,
               previousAddressRef, rAddress, rMessages, msgsDirty, depAddr, pc>>
relayVars == <<relayMounted, pubnubInstance, subscribedChannels, inboxHandlers, channel, histTimer>>
gossipVars == <<p2pTopic, p2pTimer, currentAddressRef>>
ghostVars == <<activation, trip, switchInFlight>>
verifyVars == <<blockNumber, chainRecord, verifyArgs, verifyResult>>
sendVars == <<now, ledger, lastUpdate>>
keyVars == <<keyPair, keyStorage, keysMade>>
uiVars == <<filter, contactAddress, view, selectedMessage, batch, p2pSend>>
contactVars == <<contacts, userProfile, approvedContacts>>
cryptoVars == <<sealed, opened>>
vars == <<storeVars, relayVars, gossipVars, tasks, ghostVars, verifyVars, sendVars,
          keyVars, uiVars, contactVars, cryptoVars>>

\* ------------------------------------------------------------ helpers
NeedsRender == msgsDirty \/ address # rAddress
Quiescent == pc = "idle" /\ ~NeedsRender

\* localStorage.getItem + JSON.parse: an absent item and "[]" both load as
\* the empty collection.  JSON.stringify/JSON.parse keep every field a
\* StoredMessage of this model has, so the item is kept as the collection.
StoredItems(a) == IF storage[a].has THEN storage[a].items ELSE <<>>

\* What a handleIncomingMessage closure reads of its render: the ids of
\* the messages it closes over.
Closure(msgs) == Ids(msgs)

\* A handler suspended at `await fetchUserProfile`.  addr and late are
\* history fields: the identity that was active when the delivery was made,
\* and whether it was made when the same event had been fully processed on
\* this transport (stored, no continuation for it pending, the store's
\* change rendered and its effects run).
LiveKinds == {"relay", "gossip"}
FullyProcessed(kind, p) ==
  /\ \E i \in 1..Len(messages) : messages[i].id = p.messageId /\ messages[i].via = kind
  /\ \A t \in BagToSet(tasks) : t.kind \in LiveKinds => t.cur.messageId # p.messageId
  /\ Quiescent
LiveTask(kind, p) ==
  [kind |-> kind, cur |-> p, rest |-> <<>>, ids |-> {}, addr |-> address,
   late |-> FullyProcessed(kind, p)]

RECURSIVE SkipExisting(_, _)
\* the `if (exists) continue` prefix of the backfill loop
SkipExisting(list, ids) ==
  IF list = <<>> THEN <<>>
  ELSE IF Head(list).messageId \in ids THEN SkipExisting(Tail(list), ids)
  ELSE list

AddCopies(bag, t, k) ==
  IF k = 0 THEN bag
  ELSE [x \in DOMAIN bag \cup {t} |->
          (IF x \in DOMAIN bag THEN bag[x] ELSE 0) + (IF x = t THEN k ELSE 0)]

NoTrip == [stage |-> 0, home |-> NoAddr, saved |-> <<>>]
NoActivation == [valid |-> FALSE, who |-> NoAddr, before |-> <<>>]
NoResult == [verified |-> FALSE, expired |-> FALSE, error |-> "none",
             blockNumber |-> -1, blocksRemaining |-> -1]
NoArgs == [called |-> FALSE, api |-> FALSE, messageId |-> "none",
           localHash |-> PlainHash(1), currentBlock |-> 0]
NoRecord == [present |-> FALSE, hash |-> PlainHash(1), blockNumber |-> 0]
NoUpdate == [n |-> 0, id |-> "none", newId |-> "none", status |-> "none"]

\* ------------------------------------------------------------ envelope
\* The UTF-16 code units a plaintext is made of: "a", "é" and a high
\* surrogate, which no low surrogate follows in any of these strings.
CodeUnits == {97, 233, 55296}
Plaintexts == UNION {[1..n -> CodeUnits] : n \in 0..MaxText}
IsSurrogate(u) == 55296 <= u /\ u <= 57343

\* encodeURIComponent of one code unit, as the bytes unescape leaves
Utf8Bytes(u) ==
  IF u < 128 THEN <<u>>
  ELSE IF u < 2048 THEN <<192 + (u \div 64), 128 + (u % 64)>>
  ELSE <<224 + (u \div 4096), 128 + ((u \div 64) % 64), 128 + (u % 64)>>

RECURSIVE Utf8Concat(_)
Utf8Concat(s) ==
  IF s = <<>> THEN <<>> ELSE Utf8Bytes(Head(s)) \o Utf8Concat(Tail(s))

\* tweetnacl-util decodeUTF8: unescape(encodeURIComponent(s)) as bytes;
\* encodeURIComponent throws URIError on an unpaired surrogate.
decodeUTF8(s) ==
  IF \E i \in 1..Len(s) : IsSurrogate(s[i])
  THEN [threw |-> TRUE, bytes |-> <<>>]
  ELSE [threw |-> FALSE, bytes |-> Utf8Concat(s)]

RECURSIVE Utf8Units(_)
\* decodeURIComponent(escape(bytes)): the code units of well-formed UTF-8
Utf8Units(b) ==
  IF b = <<>> THEN <<>>
  ELSE IF b[1] < 128 THEN <<b[1]>> \o Utf8Units(Tail(b))
  ELSE IF b[1] < 224
    THEN <<(b[1] - 192) * 64 + (b[2] - 128)>> \o Utf8Units(SubSeq(b, 3, Len(b)))
  ELSE <<(b[1] - 224) * 4096 + (b[2] - 128) * 64 + (b[3] - 128)>>
         \o Utf8Units(SubSeq(b, 4, Len(b)))

\* tweetnacl-util encodeUTF8
encodeUTF8(bytes) == Utf8Units(bytes)

\* encodeBase64 / decodeBase64: the string that spells the bytes; a string
\* that is not base64 makes decodeBase64 throw.
encodeBase64(bytes) == [valid |-> TRUE, bytes |-> bytes]
NotBase64 == [valid |-> FALSE, bytes |-> <<>>]
decodeBase64(str) == [threw |-> ~str.valid, bytes |-> str.bytes]

\* nacl.box.keyPair(): pair k of generateKeyPair
KeyPairs == 1..NumKeyPairs
publicKey(k) == [public |-> k]
secretKey(k) == [secret |-> k]
Nonces == 1..NumNonces

\* nacl.box.before: the key two parties share; the same for (A's public,
\* B's secret) and (B's public, A's secret).
sharedKey(pk, sk) == {pk.public, sk.secret}

\* nacl.box: the authenticator of the masked bytes followed by the bytes
\* of the message masked under the shared key and the nonce.
Masked(msg, nonce, key) ==
  [i \in 1..Len(msg) |-> [byte |-> msg[i], at |-> i, nonce |-> nonce, key |-> key]]
Authenticator(body, nonce, key) == [auth |-> body, nonce |-> nonce, key |-> key]
box(msg, nonce, theirPublicKey, mySecretKey) ==
  LET key == sharedKey(theirPublicKey, mySecretKey)
      body == Masked(msg, nonce, key)
  IN <<Authenticator(body, nonce, key)>> \o body

\* nacl.box.open: null unless the authenticator is the one of the bytes
\* under the shared key and the nonce
boxOpen(c, nonce, theirPublicKey, mySecretKey) ==
  LET key == sharedKey(theirPublicKey, mySecretKey)
  IN IF c = <<>> \/ Head(c) # Authenticator(Tail(c), nonce, key)
     THEN [null |-> TRUE, bytes |-> <<>>]
     ELSE [null |-> FALSE, bytes |-> [i \in 1..(Len(c) - 1) |-> c[i + 1].byte]]

Thrown == [threw |-> TRUE, ciphertext |-> NotBase64, nonce |-> NotBase64, text |-> <<>>]

\* encryptMessage with the nonce nacl.randomBytes returned
encryptMessage(message, recipientPublicKey, senderSecretKey, nonce) ==
  LET messageUint8 == decodeUTF8(message)
  IN IF messageUint8.threw THEN Thrown
     ELSE [Thrown EXCEPT !.threw = FALSE,
             !.ciphertext = encodeBase64(box(messageUint8.bytes, nonce,
                                             recipientPublicKey, senderSecretKey)),
             !.nonce = encodeBase64(<<nonce>>)]

\* decryptMessage without `if (!decrypted) throw`
decryptMessageUnchecked(encryptedMessage, senderPublicKey, recipientSecretKey) ==
  LET ciphertext == decodeBase64(encryptedMessage.ciphertext)
      nonce == decodeBase64(encryptedMessage.nonce)
  IN IF ciphertext.threw \/ nonce.threw \/ Len(nonce.bytes) # 1 THEN Thrown
     ELSE [Thrown EXCEPT !.threw = FALSE,
             !.text = encodeUTF8(boxOpen(ciphertext.bytes, nonce.bytes[1],
                                         senderPublicKey, recipientSecretKey).bytes)]

decryptMessage(encryptedMessage, senderPublicKey, recipientSecretKey) ==
  LET ciphertext == decodeBase64(encryptedMessage.ciphertext)
      nonce == decodeBase64(encryptedMessage.nonce)
  IN IF ciphertext.threw \/ nonce.threw \/ Len(nonce.bytes) # 1 THEN Thrown
     ELSE LET decrypted == boxOpen(ciphertext.bytes, nonce.bytes[1],
                                   senderPublicKey, recipientSecretKey)
          IN IF decrypted.null THEN Thrown
             ELSE [Thrown EXCEPT !.threw = FALSE, !.text = encodeUTF8(decrypted.bytes)]

\* ------------------------------------------------- conversation view
MessageFilter == {"all", "verified", "unverified", "expired"}

\* m.conversationId || createConversationId(m.sender, m.recipient)
msgConversationId(m) ==
  IF m.conversationId = <<>> THEN createConversationId(m.sender, m.recipient)
  ELSE m.conversationId

\* the switch (filter) of conversationMessages
FilterPasses(f, m) ==
  CASE f = "verified" -> m.verified
    [] f = "unverified" -> ~m.verified /\ ~m.expired
    [] f = "expired" -> m.expired
    [] OTHER -> TRUE

\* canVerify as ChatInterface computes it for a ChatMessage
canVerify(m, me) ==
  m.sender # me /\ ~m.expired /\ m.status # "sending" /\ m.status # "failed"

\* The ChatMessage that .map makes of a StoredMessage.
ChatMessageOf(m, me) ==
  [id |-> m.id, sender |-> m.sender, recipient |-> m.recipient,
   timestamp |-> m.timestamp, isMine |-> (m.sender = me), status |-> m.status,
   hash |-> m.hash, blockNumber |-> m.blockNumber, verified |-> m.verified,
   expired |-> m.expired, conversationId |-> m.conversationId,
   canVerify |-> canVerify(m, me)]

RECURSIVE InsertByTimestamp(_, _)
\* m goes after every element whose timestamp is not greater
InsertByTimestamp(sorted, m) ==
  IF sorted = <<>> THEN <<m>>
  ELSE IF Head(sorted).timestamp - m.timestamp <= 0
    THEN <<Head(sorted)>> \o InsertByTimestamp(Tail(sorted), m)
  ELSE <<m>> \o sorted

RECURSIVE SortFrom(_, _)
SortFrom(sorted, list) ==
  IF list = <<>> THEN sorted
  ELSE SortFrom(InsertByTimestamp(sorted, Head(list)), Tail(list))

\* .sort without a comparator result: the array stays in arrival order.
sortByTimestampKeepsArrival(list) ==
  list

\* .sort((a, b) => a.timestamp - b.timestamp), a stable sort
sortByTimestamp(list) ==
  SortFrom(<<>>, list)

\* The filter of conversationMessages read as "verified only, expired
\* excluded".
conversationFilterExcludesExpired(msgs, me, contact, f) ==
  SelectSeq(msgs, LAMBDA m :
    /\ me # NoAddr /\ contact # NoAddr
    /\ msgConversationId(m) = createConversationId(me, contact)
    /\ FilterPasses(f, m) /\ (f = "verified" => ~m.expired))

\* messages.filter(...) of conversationMessages
conversationFilter(msgs, me, contact, f) ==
  SelectSeq(msgs, LAMBDA m :
    /\ me # NoAddr /\ contact # NoAddr
    /\ msgConversationId(m) = createConversationId(me, contact)
    /\ FilterPasses(f, m))

\* conversationMessages: filter, map, sort, each on a new array.
conversationMessages(msgs, me, contact, f) ==
  LET kept == conversationFilter(msgs, me, contact, f)
  IN sortByTimestamp([i \in 1..Len(kept) |-> ChatMessageOf(kept[i], me)])

\* ---------------------------------------------------------------- Init
\* The provider rendered and its effects run, with identity who active (or
\* none) and msgs the collection stored for it.
InitStoreOf(mounted, who, msgs) ==
  /\ address = who
  /\ messages = msgs
  /\ storage = [x \in Addresses |-> IF x = who THEN [has |-> TRUE, items |-> msgs]
                                    ELSE [has |-> FALSE, items |-> <<>>]]
  /\ isAccountSwitchingRef = FALSE
  /\ previousAddressRef = who
  /\ rAddress = who
  /\ rMessages = msgs
  /\ msgsDirty = FALSE
  /\ depAddr = FALSE
  /\ pc = "idle"
  /\ relayMounted = mounted
  /\ pubnubInstance = NoAddr
  /\ subscribedChannels = {}
  /\ inboxHandlers = EmptyBag
  /\ channel = [a \in Addresses |-> <<>>]
  /\ histTimer = FALSE
  /\ p2pTopic = NoAddr
  /\ p2pTimer = NoAddr
  /\ currentAddressRef = NoAddr
  /\ tasks = EmptyBag
  /\ activation = NoActivation
  /\ trip = NoTrip
  /\ switchInFlight = FALSE

InitStore(mounted) == InitStoreOf(mounted, NoAddr, <<>>)

InitVerifyIdle ==
  /\ blockNumber = 0
  /\ chainRecord = NoRecord
  /\ verifyArgs = NoArgs
  /\ verifyResult = NoResult

\* Nothing committed on the ledger, no status update made.
InitLedger ==
  /\ now = 0
  /\ ledger = <<>>
  /\ lastUpdate = NoUpdate

\* keyPair null, no key item in localStorage: NoKey stands for both.
NoKey == 0
InitKeys ==
  /\ keyPair = NoKey
  /\ keyStorage = [a \in Addresses |-> NoKey]
  /\ keysMade = 0

\* No contact fetched, no profile, nobody approved on the chain.
InitContacts ==
  /\ contacts = <<>>
  /\ userProfile = NoAddr
  /\ approvedContacts = {}

NoSealed == [called |-> FALSE, message |-> <<>>, recipient |-> 1, sender |-> 1,
             nonce |-> 1, out |-> Thrown]
NoOpened == [called |-> FALSE, altered |-> FALSE, theirs |-> 1, mine |-> 1,
             out |-> Thrown]
InitCrypto ==
  /\ sealed = NoSealed
  /\ opened = NoOpened

\* ChatInterface as it mounts for the contact C: filter all, no message
\* selected, no batch running; no transport send made.
NoChatMessage == [id |-> "none"]
NoBatch == [active |-> FALSE, queue |-> <<>>, attempted |-> <<>>,
            verified |-> 0, expired |-> 0, failed |-> 0, reported |-> FALSE,
            currentBlock |-> 0, calls |-> 0]
NoSend == [transport |-> "none", available |-> FALSE, published |-> FALSE,
           returned |-> "none", threw |-> FALSE]
InitUI ==
  /\ filter = "all"
  /\ contactAddress = "C"
  /\ view = <<>>
  /\ selectedMessage = NoChatMessage
  /\ batch = NoBatch
  /\ p2pSend = NoSend

\* The application as App mounts it: BlockchainProvider, EncryptionProvider
\* and Libp2pProvider.
Init ==
  /\ InitStore(FALSE)
  /\ InitVerifyIdle
  /\ InitLedger
  /\ InitKeys
  /\ InitContacts
  /\ InitCrypto
  /\ InitUI

\* The same tree with PubnubProvider mounted below BlockchainProvider.
InitInbound ==
  /\ InitStore(TRUE)
  /\ InitVerifyIdle
  /\ InitLedger
  /\ InitKeys
  /\ InitContacts
  /\ InitCrypto
  /\ InitUI

\* ------------------------------------------------------- wallet events
connectWallet(a) ==
  /\ Quiescent
  /\ address = NoAddr
  /\ address' = a
  /\ activation' = [valid |-> TRUE, who |-> a, before |-> StoredItems(a)]
  /\ trip' = NoTrip
  /\ switchInFlight' = FALSE
  /\ UNCHANGED <<uiVars, keyVars, contactVars, cryptoVars, messages, storage, isAccountSwitchingRef, previousAddressRef,
                 rAddress, rMessages, msgsDirty, depAddr, pc,
                 relayVars, gossipVars, tasks, verifyVars, sendVars>>

\* selectAccount, and the 2 s poll that follows the extension's account
selectAccount(a) ==
  /\ Quiescent
  /\ address # NoAddr
  /\ a # address
  /\ address' = a
  /\ activation' = [valid |-> TRUE, who |-> a, before |-> StoredItems(a)]
  /\ trip' = IF trip.stage = 1 /\ a = trip.home
               THEN [trip EXCEPT !.stage = 2]
             ELSE IF StoredItems(address) # <<>> /\ StoredItems(a) = <<>>
               THEN [stage |-> 1, home |-> address, saved |-> StoredItems(address)]
             ELSE NoTrip
  /\ switchInFlight' = TRUE
  /\ UNCHANGED <<uiVars, keyVars, contactVars, cryptoVars, messages, storage, isAccountSwitchingRef, previousAddressRef,
                 rAddress, rMessages, msgsDirty, depAddr, pc,
                 relayVars, gossipVars, tasks, verifyVars, sendVars>>

\* disconnectWallet that also removes the identity's persisted collection
disconnectWalletRemovesItem ==
  /\ Quiescent
  /\ address # NoAddr
  /\ address' = NoAddr
  /\ messages' = <<>>
  /\ msgsDirty' = TRUE
  /\ previousAddressRef' = NoAddr
  /\ activation' = NoActivation
  /\ trip' = NoTrip
  /\ switchInFlight' = FALSE
  /\ userProfile' = NoAddr
  /\ contacts' = <<>>
  /\ storage' = [storage EXCEPT ![address] = [has |-> FALSE, items |-> <<>>]]
  /\ UNCHANGED <<uiVars, keyVars, approvedContacts, cryptoVars, isAccountSwitchingRef,
                 rAddress, rMessages, depAddr, pc,
                 relayVars, gossipVars, tasks, verifyVars, sendVars>>

disconnectWallet ==
  /\ Quiescent
  /\ address # NoAddr
  /\ address' = NoAddr
  /\ messages' = <<>>
  /\ msgsDirty' = TRUE
  /\ previousAddressRef' = NoAddr
  /\ activation' = NoActivation
  /\ trip' = NoTrip
  /\ switchInFlight' = FALSE
  /\ userProfile' = NoAddr
  /\ contacts' = <<>>
  /\ UNCHANGED <<uiVars, keyVars, approvedContacts, cryptoVars, storage, isAccountSwitchingRef,
                 rAddress, rMessages, depAddr, pc,
                 relayVars, gossipVars, tasks, verifyVars, sendVars>>

\* ------------------------------------------------- render and effects
\* PubnubProvider initialize effect: cleanupPubNub without an address,
\* else initializePubNub + subscribeToInbox (the handler is pushed on every
\* run; the effect's cleanup removes the status listener only).
PubnubInitEffect ==
  IF ~relayMounted
    THEN UNCHANGED <<pubnubInstance, inboxHandlers, subscribedChannels>>
  ELSE IF address = NoAddr
    THEN /\ pubnubInstance' = NoAddr
         /\ inboxHandlers' = IF pubnubInstance # NoAddr THEN EmptyBag ELSE inboxHandlers
         /\ subscribedChannels' = IF pubnubInstance # NoAddr THEN {} ELSE subscribedChannels
    ELSE /\ BagCardinality(inboxHandlers) < MaxHandlers
         /\ pubnubInstance' = IF pubnubInstance = NoAddr THEN address ELSE pubnubInstance
         /\ inboxHandlers' = AddCopies(inboxHandlers, Closure(messages), 1)
         /\ subscribedChannels' = subscribedChannels \cup {address}

\* PubnubProvider history effect: clearTimeout of the previous run, then a
\* new 500 ms timer whose callback closes over this render's messages.
HistoryEffect ==
  histTimer' = (relayMounted /\ address # NoAddr)

\* Libp2pProvider auto-initialize effect (dependencies: address, connected)
\* and shutdownP2P.
P2PAutoInitEffect ==
  IF address = rAddress THEN UNCHANGED <<p2pTopic, p2pTimer, currentAddressRef>>
  ELSE IF address # NoAddr
    THEN /\ p2pTimer' = address
         /\ UNCHANGED <<p2pTopic, currentAddressRef>>
    ELSE /\ p2pTimer' = NoAddr
         /\ p2pTopic' = NoAddr
         /\ currentAddressRef' = NoAddr

\* EncryptionProvider key load effect (dependency: address): the pair of
\* the identity's namespaced items, or null.
KeyLoadEffect ==
  /\ keyPair' = IF address = rAddress THEN keyPair
                ELSE IF address = NoAddr THEN NoKey
                ELSE keyStorage[address]
  /\ UNCHANGED <<keyStorage, keysMade>>

Render ==
  /\ pc = "idle"
  /\ NeedsRender
  /\ rAddress' = address
  /\ rMessages' = messages
  /\ msgsDirty' = FALSE
  /\ depAddr' = (address # rAddress)
  /\ pc' = IF address # rAddress THEN "load" ELSE "save"
  /\ PubnubInitEffect
  /\ HistoryEffect
  /\ P2PAutoInitEffect
  /\ KeyLoadEffect
  /\ view' = conversationMessages(messages, address, contactAddress, filter)
  /\ switchInFlight' = (switchInFlight /\ address # rAddress)
  /\ UNCHANGED <<filter, contactAddress, selectedMessage, batch, p2pSend,
                 address, messages, storage, isAccountSwitchingRef,
                 previousAddressRef, relayMounted, channel, tasks, activation, trip,
                 verifyVars, sendVars, contactVars, cryptoVars>>

LoadMessagesEffect ==
  /\ pc = "load"
  /\ IF rAddress = NoAddr
       THEN /\ messages' = <<>>
            /\ UNCHANGED isAccountSwitchingRef
       ELSE /\ isAccountSwitchingRef' = FALSE
            /\ messages' = StoredItems(rAddress)
  /\ msgsDirty' = TRUE
  /\ pc' = "save"
  /\ UNCHANGED <<uiVars, keyVars, contactVars, cryptoVars, address, storage, previousAddressRef, rAddress, rMessages, depAddr,
                 relayVars, gossipVars, tasks, ghostVars, verifyVars, sendVars>>

SaveMessagesEffect ==
  /\ pc = "save"
  /\ IF rAddress = NoAddr THEN UNCHANGED storage
     ELSE IF Len(rMessages) = 0 /\ isAccountSwitchingRef THEN UNCHANGED storage
     ELSE storage' = [storage EXCEPT ![rAddress] = [has |-> TRUE, items |-> rMessages]]
  /\ pc' = IF depAddr THEN "switch" ELSE "idle"
  /\ UNCHANGED <<uiVars, keyVars, contactVars, cryptoVars, address, messages, isAccountSwitchingRef, previousAddressRef,
                 rAddress, rMessages, msgsDirty, depAddr,
                 relayVars, gossipVars, tasks, ghostVars, verifyVars, sendVars>>

AccountSwitchEffect ==
  /\ pc = "switch"
  /\ IF previousAddressRef # NoAddr /\ rAddress # NoAddr /\ previousAddressRef # rAddress
       THEN /\ isAccountSwitchingRef' = TRUE
            /\ contacts' = <<>>
            /\ messages' = <<>>
            /\ userProfile' = NoAddr
            /\ msgsDirty' = TRUE
       ELSE UNCHANGED <<isAccountSwitchingRef, contacts, messages, userProfile, msgsDirty>>
  /\ previousAddressRef' = rAddress
  /\ pc' = "idle"
  /\ depAddr' = FALSE
  /\ UNCHANGED <<uiVars, keyVars, approvedContacts, cryptoVars, address, storage, rAddress, rMessages,
                 relayVars, gossipVars, tasks, ghostVars, verifyVars, sendVars>>

\* ---------------------------------------------------------- transports
\* What `await fetchUserProfile(sender)` and decrypt come to: the profile
\* has a public key and the plaintext opens ("key"), the profile is absent
\* or has no key ("nokey"), or the fetch or the decryption throws.
ProfileOutcomes == {"key", "nokey", "throws"}
Registered == {"key"}

\* decryptedContent after the try/catch of the handler of the given path.
DecryptedContent(kind, o) ==
  IF o = "key" THEN "plaintext"
  ELSE IF o = "throws" THEN "[Decryption failed]"
  ELSE IF kind = "gossip" THEN "[Sender not registered]"
  ELSE "[Sender public key not found]"

\* What handleIncomingMessage / the backfill loop stores for a payload.
ReceivedMessage(kind, p, o) ==
  [MkStored(p, IF kind = "gossip" THEN "received" ELSE "sent", address, kind)
     EXCEPT !.encryptedData = IF kind = "gossip" THEN p.encryptedData ELSE EmptyEnvelope,
            !.decryptedContent = DecryptedContent(kind, o)]

\* addStoredMessage: setMessages(prev => [...prev, message])
addStoredMessage(m) ==
  /\ Len(messages) < MaxMsgs
  /\ messages' = Append(messages, m)
  /\ msgsDirty' = TRUE

\* PubnubProvider.handleIncomingMessage up to its first await, for one
\* registered closure: TRUE when the closure goes on to fetch the profile.
RelayHandlerProceeds(h, p) == ~(p.messageId \in h)

\* A peer publishes p on inbox-{p.recipient}: the relay stores it in the
\* channel history and the unified listener calls every inbox handler.
PublishToRelay(p) ==
  /\ Quiescent
  /\ relayMounted
  /\ Len(channel[p.recipient]) < MaxHistory
  /\ channel' = [channel EXCEPT ![p.recipient] = Append(@, p)]
  /\ LET k == IF pubnubInstance # NoAddr /\ p.recipient \in subscribedChannels
                THEN BagCardinality(
                       [h \in {g \in BagToSet(inboxHandlers) : RelayHandlerProceeds(g, p)}
                          |-> inboxHandlers[h]])
                ELSE 0
     IN /\ BagCardinality(tasks) + k <= MaxTasks
        /\ tasks' = AddCopies(tasks, LiveTask("relay", p), k)
  /\ UNCHANGED <<uiVars, keyVars, contactVars, cryptoVars, storeVars, relayMounted, pubnubInstance, subscribedChannels,
                 inboxHandlers, histTimer, gossipVars, ghostVars, verifyVars, sendVars>>

\* Libp2pProvider.handleIncomingMessage up to its first await; the listener
\* calls messageHandlerRef.current, the closure of the latest render.
GossipHandlerProceeds(p) ==
  /\ rAddress # NoAddr
  /\ p.recipient = rAddress
  /\ ~(p.messageId \in Ids(rMessages))

\* A peer publishes p on the gossip topic of p.recipient.
PublishToGossip(p) ==
  /\ Quiescent
  /\ p2pTopic = p.recipient
  /\ GossipHandlerProceeds(p)
  /\ BagCardinality(tasks) < MaxTasks
  /\ tasks' = AddCopies(tasks, LiveTask("gossip", p), 1)
  /\ UNCHANGED <<uiVars, keyVars, contactVars, cryptoVars, storeVars, relayVars, gossipVars, ghostVars, verifyVars, sendVars>>

\* The auto-initialize timer fires: initializeP2P of the render that set it
\* (its awaits are taken in one step: nothing else reads the node between).
initializeP2P ==
  /\ Quiescent
  /\ p2pTimer # NoAddr
  /\ p2pTimer' = NoAddr
  /\ p2pTopic' = p2pTimer
  /\ currentAddressRef' = p2pTimer
  /\ UNCHANGED <<uiVars, keyVars, contactVars, cryptoVars, storeVars, relayVars, tasks, ghostVars, verifyVars, sendVars>>

\* The backfill timer fires: fetchHistory starts and awaits the relay.
HistoryTimerFires ==
  /\ Quiescent
  /\ histTimer
  /\ BagCardinality(tasks) < MaxTasks
  /\ tasks' = AddCopies(tasks, [kind |-> "histFetch", cur |-> NoPayload, rest |-> <<>>,
                                ids |-> Ids(rMessages), addr |-> rAddress,
                                late |-> FALSE], 1)
  /\ histTimer' = FALSE
  /\ UNCHANGED <<uiVars, keyVars, contactVars, cryptoVars, storeVars, relayMounted, pubnubInstance, subscribedChannels,
                 inboxHandlers, channel, gossipVars, ghostVars, verifyVars, sendVars>>

\* fetchMessageHistory: [] without a client, else the channel's stored
\* messages (the last 100; the model's history is shorter).
fetchMessageHistory(userAddress) ==
  IF pubnubInstance = NoAddr THEN <<>> ELSE channel[userAddress]

HistoryContinueNoSkip(t, list) ==
  LET next == list
      less == tasks (-) SetToBag({t})
  IN IF next = <<>> THEN less
     ELSE AddCopies(less, [t EXCEPT !.kind = "history", !.cur = Head(next),
                                    !.rest = Tail(next)], 1)

\* The backfill loop from one await to the next: the entries that exist in
\* the closure's messages are skipped, the next one awaits its profile.
HistoryContinue(t, list) ==
  LET next == SkipExisting(list, t.ids)
      less == tasks (-) SetToBag({t})
  IN IF next = <<>> THEN less
     ELSE AddCopies(less, [t EXCEPT !.kind = "history", !.cur = Head(next),
                                    !.rest = Tail(next)], 1)

\* A suspended continuation resumes; o is what the profile fetch and the
\* decryption it awaited come to.
ResumeTask(t, o) ==
  /\ Quiescent
  /\ BagIn(t, tasks)
  /\ t.kind \in LiveKinds \cup {"histFetch", "history"}
  /\ CASE t.kind = "histFetch" ->
            /\ tasks' = HistoryContinue(t, fetchMessageHistory(t.addr))
            /\ UNCHANGED <<messages, msgsDirty, activation>>
       [] t.kind = "history" ->
            /\ addStoredMessage(ReceivedMessage("history", t.cur, o))
            /\ tasks' = HistoryContinue(t, t.rest)
            /\ activation' = NoActivation
       [] OTHER ->
            /\ addStoredMessage(ReceivedMessage(t.kind, t.cur, o))
            /\ tasks' = tasks (-) SetToBag({t})
            /\ activation' = NoActivation
  /\ UNCHANGED <<uiVars, keyVars, contactVars, cryptoVars, address, storage, isAccountSwitchingRef, previousAddressRef,
                 rAddress, rMessages, depAddr, pc, relayVars, gossipVars,
                 trip, switchInFlight, verifyVars, sendVars>>

\* ---------------------------------------------------------------- Next
\* Identity lifecycle and persistence, with the gossip overlay as the
\* source of inbound messages.
Next ==
  \/ \E a \in Addresses : connectWallet(a)
  \/ \E a \in Addresses : selectAccount(a)
  \/ disconnectWallet
  \/ Render
  \/ LoadMessagesEffect
  \/ SaveMessagesEffect
  \/ AccountSwitchEffect
  \/ \E p \in OwnPayloads : PublishToGossip(p)
  \/ initializeP2P
  \/ \E t \in BagToSet(tasks), o \in Registered : ResumeTask(t, o)

Spec == Init /\ [][Next]_vars

\* Inbound delivery over both transports and the history backfill, for one
\* identity that connects and disconnects.
NextInbound ==
  \/ connectWallet("A")
  \/ disconnectWallet
  \/ Render
  \/ LoadMessagesEffect
  \/ SaveMessagesEffect
  \/ AccountSwitchEffect
  \/ \E p \in InboxPayloads("A") : PublishToRelay(p)
  \/ \E p \in InboxPayloads("A") : PublishToGossip(p)
  \/ initializeP2P
  \/ HistoryTimerFires
  \/ \E t \in BagToSet(tasks), o \in Registered : ResumeTask(t, o)

SpecInbound == InitInbound /\ [][NextInbound]_vars

\* Identity changes while the relay delivers: one identity connects and
\* disconnects, the account selection moves between the two.
NextSwitch ==
  \/ connectWallet("A")
  \/ \E a \in Addresses : selectAccount(a)
  \/ disconnectWallet
  \/ Render
  \/ LoadMessagesEffect
  \/ SaveMessagesEffect
  \/ AccountSwitchEffect
  \/ \E p \in InboxPayloads("A") \cap OwnPayloads : PublishToRelay(p)
  \/ HistoryTimerFires
  \/ \E t \in BagToSet(tasks), o \in Registered : ResumeTask(t, o)

SpecSwitch == InitInbound /\ [][NextSwitch]_vars

\* Inbound delivery of one message whose sender may be unregistered or
\* whose ciphertext may not open.
NextDecrypt ==
  \/ connectWallet("A")
  \/ disconnectWallet
  \/ Render
  \/ LoadMessagesEffect
  \/ SaveMessagesEffect
  \/ AccountSwitchEffect
  \/ \E p \in InboxPayloads("A") \cap OwnPayloads : PublishToRelay(p)
  \/ \E p \in InboxPayloads("A") \cap OwnPayloads : PublishToGossip(p)
  \/ initializeP2P
  \/ HistoryTimerFires
  \/ \E t \in BagToSet(tasks), o \in ProfileOutcomes : ResumeTask(t, o)

SpecDecrypt == InitInbound /\ [][NextDecrypt]_vars

\* ---------------------------------------------------------- verification
\* Block heights the head subscription reports, and the blocks a record
\* may have been finalized in.
RecordBlocks == {100, 1000}
Heights == {0} \cup {r + k * (MESSAGE_HASH_EXPIRY_BLOCKS \div 2) + d :
                       r \in RecordBlocks, k \in 0..MaxHalfWindows, d \in -1..1}
LedgerRecords ==
  {NoRecord} \cup [present : {TRUE}, hash : HashStr, blockNumber : RecordBlocks]

\* The comparison of verifyMessageOnChain.
HashesMatch(blockchainHash, localHash) ==
  \/ toLowerCase(blockchainHash) = toLowerCase(localHash)
  \/ blockchainHash = localHash
  \/ blockchainHash = With0x(localHash)
  \/ With0x(blockchainHash) = localHash

\* verifyMessageOnChain(messageId, localHash): storedData is what the
\* ledger query of messageId returned (toHuman gives the block number with
\* thousands separators, which parseInt after replace(/,/g, "") reads back).
verifyMessageOnChainMissesExpiry(api, storedData, localHash, currentBlock) ==
  IF ~api THEN [NoResult EXCEPT !.error = "API not connected"]
  ELSE IF ~storedData.present
    THEN [NoResult EXCEPT !.error = "Message not found on blockchain"]
  ELSE LET expiryBlock == storedData.blockNumber + MESSAGE_HASH_EXPIRY_BLOCKS
           blocksRemaining == expiryBlock - currentBlock
       IN IF blocksRemaining < 0
            THEN [verified |-> FALSE, expired |-> TRUE, error |-> "none",
                  blockNumber |-> storedData.blockNumber, blocksRemaining |-> 0]
            ELSE [verified |-> HashesMatch(storedData.hash, localHash),
                  expired |-> FALSE, error |-> "none",
                  blockNumber |-> storedData.blockNumber,
                  blocksRemaining |-> blocksRemaining]

verifyMessageOnChainStaleRemaining(api, storedData, localHash, currentBlock) ==
  IF ~api THEN [NoResult EXCEPT !.error = "API not connected"]
  ELSE IF ~storedData.present
    THEN [NoResult EXCEPT !.error = "Message not found on blockchain"]
  ELSE LET expiryBlock == storedData.blockNumber + MESSAGE_HASH_EXPIRY_BLOCKS
           blocksRemaining == expiryBlock - currentBlock
       IN IF blocksRemaining <= 0
            THEN [verified |-> FALSE, expired |-> TRUE, error |-> "none",
                  blockNumber |-> storedData.blockNumber, blocksRemaining |-> 0]
            ELSE [verified |-> HashesMatch(storedData.hash, localHash),
                  expired |-> FALSE, error |-> "none",
                  blockNumber |-> storedData.blockNumber,
                  blocksRemaining |-> MESSAGE_HASH_EXPIRY_BLOCKS]

\* verifyMessageOnChain that reports a missing record as expired.
verifyMessageOnChainMissingIsExpired(api, storedData, localHash, currentBlock) ==
  IF ~api THEN [NoResult EXCEPT !.error = "API not connected"]
  ELSE IF ~storedData.present
    THEN [NoResult EXCEPT !.expired = TRUE]
  ELSE LET expiryBlock == storedData.blockNumber + MESSAGE_HASH_EXPIRY_BLOCKS
           blocksRemaining == expiryBlock - currentBlock
       IN IF blocksRemaining <= 0
            THEN [verified |-> FALSE, expired |-> TRUE, error |-> "none",
                  blockNumber |-> storedData.blockNumber, blocksRemaining |-> 0]
            ELSE [verified |-> HashesMatch(storedData.hash, localHash),
                  expired |-> FALSE, error |-> "none",
                  blockNumber |-> storedData.blockNumber,
                  blocksRemaining |-> blocksRemaining]

\* verifyMessageOnChain that goes on to compare the hashes of an expired
\* record.
verifyMessageOnChainComparesExpired(api, storedData, localHash, currentBlock) ==
  IF ~api THEN [NoResult EXCEPT !.error = "API not connected"]
  ELSE IF ~storedData.present
    THEN [NoResult EXCEPT !.error = "Message not found on blockchain"]
  ELSE LET expiryBlock == storedData.blockNumber + MESSAGE_HASH_EXPIRY_BLOCKS
           blocksRemaining == expiryBlock - currentBlock
       IN [verified |-> HashesMatch(storedData.hash, localHash),
           expired |-> blocksRemaining <= 0, error |-> "none",
           blockNumber |-> storedData.blockNumber,
           blocksRemaining |-> IF blocksRemaining <= 0 THEN 0 ELSE blocksRemaining]

verifyMessageOnChain(api, storedData, localHash, currentBlock) ==
  IF ~api THEN [NoResult EXCEPT !.error = "API not connected"]
  ELSE IF ~storedData.present
    THEN [NoResult EXCEPT !.error = "Message not found on blockchain"]
  ELSE LET expiryBlock == storedData.blockNumber + MESSAGE_HASH_EXPIRY_BLOCKS
           blocksRemaining == expiryBlock - currentBlock
       IN IF blocksRemaining <= 0
            THEN [verified |-> FALSE, expired |-> TRUE, error |-> "none",
                  blockNumber |-> storedData.blockNumber, blocksRemaining |-> 0]
            ELSE [verified |-> HashesMatch(storedData.hash, localHash),
                  expired |-> FALSE, error |-> "none",
                  blockNumber |-> storedData.blockNumber,
                  blocksRemaining |-> blocksRemaining]

\* subscribeNewHeads callback: the chain's head moved on.
NewHead(h) ==
  /\ h > blockNumber
  /\ blockNumber' = h
  /\ UNCHANGED <<uiVars, keyVars, contactVars, cryptoVars, storeVars, relayVars, gossipVars, tasks, ghostVars,
                 chainRecord, verifyArgs, verifyResult, sendVars>>

\* A caller verifies the message of chainRecord against localHash.
VerifyCall(api, localHash) ==
  /\ verifyArgs' = [called |-> TRUE, api |-> api, messageId |-> "m1",
                    localHash |-> localHash, currentBlock |-> blockNumber]
  /\ verifyResult' = verifyMessageOnChain(api, chainRecord, localHash, blockNumber)
  /\ UNCHANGED <<uiVars, keyVars, contactVars, cryptoVars, storeVars, relayVars, gossipVars, tasks, ghostVars,
                 blockNumber, chainRecord, sendVars>>

InitVerify ==
  /\ InitStore(FALSE)
  /\ blockNumber = 0
  /\ chainRecord \in LedgerRecords
  /\ verifyArgs = NoArgs
  /\ verifyResult = NoResult
  /\ InitLedger
  /\ InitKeys
  /\ InitContacts
  /\ InitCrypto
  /\ InitUI

NextVerify ==
  \/ \E h \in Heights : NewHead(h)
  \/ \E api \in BOOLEAN, localHash \in HashStr : VerifyCall(api, localHash)

SpecVerify == InitVerify /\ [][NextVerify]_vars

\* ------------------------------------------------------ send and verify
\* blockNumber, newId: undefined
NoBlock == -1
NoId == "undefined"

\* `temp_${Date.now()}`, `msg_${Date.now()}`, and the id the pallet's
\* MessageHashSent event carries for the n-th committed hash.
TempId(t) == "temp_" \o ToString(t)
FallbackId(t) == "msg_" \o ToString(t)
LedgerId(n) == "id_" \o ToString(n)

\* The storedMessage that handleSendMessage creates.
OutboundMessage(t, from, to, v) ==
  [id |-> TempId(t), timestamp |-> t, conversationId |-> createConversationId(from, to),
   sender |-> from, recipient |-> to, encryptedData |-> Envelope(v),
   hash |-> PlainHash(v), status |-> "sending", blockNumber |-> NoBlock,
   decryptedContent |-> "plaintext", direction |-> "sent",
   verified |-> TRUE, expired |-> FALSE, addedUnder |-> from, via |-> "send"]

\* The Partial<StoredMessage> of updateMessageStatus: absent, or the
\* verified and expired flags that handleVerifyMessage passes.
NoUpdates == [set |-> FALSE, verified |-> FALSE, expired |-> FALSE]

\* updateMessageStatus written as remove and re-insert: the updated entries
\* go to the end of the collection.
updateMessageStatusReinserts(msgs, id, status, bn, newId, updates) ==
  LET kept == SelectSeq(msgs, LAMBDA m : m.id # id)
      hit == SelectSeq(msgs, LAMBDA m : m.id = id)
  IN kept \o [i \in 1..Len(hit) |->
               [hit[i] EXCEPT
                  !.verified = IF updates.set THEN updates.verified ELSE @,
                  !.expired = IF updates.set THEN updates.expired ELSE @,
                  !.id = IF newId = NoId THEN @ ELSE newId,
                  !.status = status,
                  !.blockNumber = IF bn = NoBlock THEN @ ELSE bn]]

\* updateMessageStatus that adds an entry when no id matches
updateMessageStatusUpserts(msgs, id, status, bn, newId, updates) ==
  IF \E i \in 1..Len(msgs) : msgs[i].id = id
    THEN [i \in 1..Len(msgs) |->
            IF msgs[i].id = id
              THEN [msgs[i] EXCEPT
                      !.verified = IF updates.set THEN updates.verified ELSE @,
                      !.expired = IF updates.set THEN updates.expired ELSE @,
                      !.id = IF newId = NoId THEN @ ELSE newId,
                      !.status = status,
                      !.blockNumber = IF bn = NoBlock THEN @ ELSE bn]
              ELSE msgs[i]]
    ELSE Append(msgs, [OutboundMessage(0, "A", "C", 1) EXCEPT !.id = id, !.status = status])

\* updateMessageStatus(id, status, blockNumber?, newId?, updates?): the
\* collection after prev.map(...).
updateMessageStatus(msgs, id, status, bn, newId, updates) ==
  [i \in 1..Len(msgs) |->
     IF msgs[i].id = id
       THEN [msgs[i] EXCEPT
               !.verified = IF updates.set THEN updates.verified ELSE @,
               !.expired = IF updates.set THEN updates.expired ELSE @,
               !.id = IF newId = NoId THEN @ ELSE newId,
               !.status = status,
               !.blockNumber = IF bn = NoBlock THEN @ ELSE bn]
       ELSE msgs[i]]

\* A call of updateMessageStatus: setMessages(prev => prev.map(...)).
UpdateStatus(id, status, bn, newId, updates) ==
  /\ messages' = updateMessageStatus(messages, id, status, bn, newId, updates)
  /\ msgsDirty' = TRUE
  /\ lastUpdate' = [n |-> 1 - lastUpdate.n, id |-> id, newId |-> newId,
                    status |-> status]

\* api.query.messaging.messageHashes(id)
LedgerQuery(id) ==
  IF \E k \in 1..Len(ledger) : ledger[k].id = id
    THEN ledger[CHOOSE k \in 1..Len(ledger) : ledger[k].id = id]
    ELSE NoRecord

LedgerEntry(id, p, from, bn) ==
  [present |-> TRUE, hash |-> p.messageHash, blockNumber |-> bn,
   id |-> id, sender |-> from, recipient |-> p.recipient]

\* isSending: a send of this ChatInterface is in flight.
isSending == \E t \in BagToSet(tasks) : t.kind = "send"

\* handleSendMessage up to `await sendMessageHash`: the provisional entry
\* is stored, the submission starts.  t is the clock's reading, later than
\* that of every earlier user action.
handleSendMessage(contact, v, t) ==
  /\ Quiescent
  /\ address # NoAddr
  /\ ~isSending
  /\ t > now /\ t <= MaxClock
  /\ now' = t
  /\ BagCardinality(tasks) < MaxTasks
  /\ addStoredMessage(OutboundMessage(t, address, contact, v))
  /\ tasks' = AddCopies(tasks, [kind |-> "send",
                                cur |-> MkPayload(TempId(t), address, contact, v),
                                rest |-> <<>>, ids |-> {}, addr |-> address,
                                late |-> FALSE], 1)
  /\ UNCHANGED <<uiVars, keyVars, contactVars, cryptoVars, address, storage, isAccountSwitchingRef, previousAddressRef,
                 rAddress, rMessages, depAddr, pc, relayVars, gossipVars,
                 ghostVars, verifyVars, ledger, lastUpdate>>

\* The transaction is finalized without a dispatch error: the ledger holds
\* the hash, sendMessageHash resolves and handleSendMessage goes on.  event
\* tells whether the MessageHashSent event was found.
SendFinalized(t, event) ==
  /\ Quiescent
  /\ BagIn(t, tasks) /\ t.kind = "send"
  /\ LET msgId == LedgerId(Len(ledger) + 1)
     IN /\ ledger' = Append(ledger, LedgerEntry(msgId, t.cur, t.addr, blockNumber))
        /\ UpdateStatus(t.cur.messageId, "sent", blockNumber,
                        IF event THEN msgId ELSE FallbackId(now), NoUpdates)
  /\ tasks' = tasks (-) SetToBag({t})
  /\ UNCHANGED <<uiVars, keyVars, contactVars, cryptoVars, address, storage, isAccountSwitchingRef, previousAddressRef,
                 rAddress, rMessages, depAddr, pc, relayVars, gossipVars,
                 ghostVars, verifyVars, now>>

\* sendMessageHash throws (no api, no pallet, dispatch error, signing
\* refused): the catch block of handleSendMessage runs at clock reading t.
SendRejected(t, at) ==
  /\ Quiescent
  /\ BagIn(t, tasks) /\ t.kind = "send"
  /\ at >= now /\ at <= MaxClock
  /\ now' = at
  /\ UpdateStatus(TempId(at - 1), "failed", NoBlock, NoId, NoUpdates)
  /\ tasks' = tasks (-) SetToBag({t})
  /\ UNCHANGED <<uiVars, keyVars, contactVars, cryptoVars, address, storage, isAccountSwitchingRef, previousAddressRef,
                 rAddress, rMessages, depAddr, pc, relayVars, gossipVars,
                 ghostVars, verifyVars, ledger>>

\* A peer's transaction for the hash of payload p is finalized.
PeerCommit(p) ==
  /\ \A k \in 1..Len(ledger) : ~(ledger[k].hash = p.messageHash /\ ledger[k].sender = p.sender)
  /\ ledger' = Append(ledger, LedgerEntry(LedgerId(Len(ledger) + 1), p, p.sender, blockNumber))
  /\ UNCHANGED <<uiVars, keyVars, contactVars, cryptoVars, storeVars, relayVars, gossipVars, tasks, ghostVars, verifyVars,
                 now, lastUpdate>>

\* fetchMessageHashes up to its `await Promise.all`: the closure's messages
\* are what the queries run over.
fetchMessageHashes ==
  /\ Quiescent
  /\ Len(rMessages) # 0
  /\ BagCardinality(tasks) < MaxTasks
  /\ ~(\E t \in BagToSet(tasks) : t.kind = "fetchHashes")
  /\ tasks' = AddCopies(tasks, [kind |-> "fetchHashes", cur |-> NoPayload,
                                rest |-> rMessages, ids |-> {}, addr |-> rAddress,
                                late |-> FALSE], 1)
  /\ UNCHANGED <<uiVars, keyVars, contactVars, cryptoVars, storeVars, relayVars, gossipVars, ghostVars, verifyVars, sendVars>>

\* The queries of fetchMessageHashes have answered: setMessages(updatedMessages).
FetchHashesDone(t) ==
  /\ Quiescent
  /\ BagIn(t, tasks) /\ t.kind = "fetchHashes"
  /\ messages' = [i \in 1..Len(t.rest) |->
                    IF t.rest[i].status # "verified" /\ LedgerQuery(t.rest[i].id).present
                      THEN [t.rest[i] EXCEPT !.status = "verified"]
                      ELSE t.rest[i]]
  /\ msgsDirty' = TRUE
  /\ tasks' = tasks (-) SetToBag({t})
  /\ UNCHANGED <<uiVars, keyVars, contactVars, cryptoVars, address, storage, isAccountSwitchingRef, previousAddressRef,
                 rAddress, rMessages, depAddr, pc, relayVars, gossipVars,
                 ghostVars, verifyVars, sendVars>>

\* handleVerifyMessage(message) up to the ledger query of
\* verifyMessageOnChain(message.id, message.hash): the suspended call.
\* message is a ChatMessage of some render's view, currentBlock the block
\* number that the closure of verifyMessageOnChain holds, caller the
\* handler that awaits the result.  late is a history field: the stored
\* message was already expired when the call was made.
handleVerifyMessage(message, caller, currentBlock) ==
  [kind |-> "verify",
   cur |-> [NoPayload EXCEPT !.messageId = message.id, !.sender = message.sender,
                             !.recipient = message.recipient,
                             !.conversationId = message.conversationId,
                             !.messageHash = message.hash],
   rest |-> <<>>, ids |-> {}, addr |-> rAddress,
   late |-> \E i \in 1..Len(messages) : messages[i].id = message.id /\ messages[i].expired,
   status |-> message.status, currentBlock |-> currentBlock, caller |-> caller]

\* canVerify as MessageBubble computes it: the value ChatInterface put in
\* the ChatMessage is not read.
BubbleCanVerify(message) ==
  ~message.expired /\ message.status # "sending" /\ message.status # "failed"

\* MessageBubble.handleClick and handleMessageClick: the modal opens on the
\* k-th bubble of the view.
handleMessageClick(k) ==
  /\ Quiescent
  /\ k \in 1..Len(view)
  /\ BubbleCanVerify(view[k])
  /\ selectedMessage # view[k]
  /\ selectedMessage' = view[k]
  /\ UNCHANGED <<storeVars, relayVars, gossipVars, tasks, ghostVars, verifyVars,
                 sendVars, keyVars, contactVars, cryptoVars, filter, contactAddress, view, batch, p2pSend>>

\* onClose of the modal
closeModal ==
  /\ selectedMessage # NoChatMessage
  /\ selectedMessage' = NoChatMessage
  /\ UNCHANGED <<storeVars, relayVars, gossipVars, tasks, ghostVars, verifyVars,
                 sendVars, keyVars, contactVars, cryptoVars, filter, contactAddress, view, batch, p2pSend>>

\* VerificationModal.handleVerify: the Verify button, disabled while a
\* call of the modal is in flight.
handleVerify ==
  /\ Quiescent
  /\ selectedMessage # NoChatMessage
  /\ ~(\E t \in BagToSet(tasks) : t.kind = "verify" /\ t.caller = "modal")
  /\ BagCardinality(tasks) < MaxTasks
  /\ tasks' = AddCopies(tasks, handleVerifyMessage(selectedMessage, "modal", blockNumber), 1)
  /\ UNCHANGED <<uiVars, keyVars, contactVars, cryptoVars, storeVars, relayVars, gossipVars, ghostVars,
                 verifyVars, sendVars>>

\* the filter of handleVerifyAll over the view of its render
unverifiedMessages(msgs) ==
  SelectSeq(msgs, LAMBDA m :
    ~m.verified /\ ~m.expired /\ m.status # "sending" /\ m.status # "failed")

\* handleVerifyAll up to its first await (or its early return); the
\* button is disabled while isVerifyingAll.
handleVerifyAll ==
  /\ Quiescent
  /\ ~batch.active
  /\ LET todo == unverifiedMessages(view)
     IN IF todo = <<>>
          THEN /\ batch' = [NoBatch EXCEPT !.calls = 1 - batch.calls]
               /\ tasks' = tasks
          ELSE /\ BagCardinality(tasks) < MaxTasks
               /\ batch' = [NoBatch EXCEPT !.active = TRUE, !.queue = Tail(todo),
                                           !.attempted = <<Head(todo).id>>,
                                           !.currentBlock = blockNumber,
                                           !.calls = 1 - batch.calls]
               /\ tasks' = AddCopies(tasks,
                              handleVerifyMessage(Head(todo), "batch", blockNumber), 1)
  /\ UNCHANGED <<storeVars, relayVars, gossipVars, ghostVars, verifyVars, sendVars,
                 keyVars, contactVars, cryptoVars, filter, contactAddress, view, selectedMessage, p2pSend>>

\* The loop of handleVerifyAll after one awaited result: the count, then
\* the next message or the closing toast.
VerifyAllContinue(t, result) ==
  LET counted == [batch EXCEPT
                    !.verified = @ + (IF result.verified THEN 1 ELSE 0),
                    !.expired = @ + (IF ~result.verified /\ result.expired THEN 1 ELSE 0),
                    !.failed = @ + (IF ~result.verified /\ ~result.expired THEN 1 ELSE 0)]
  IN IF batch.queue = <<>>
       THEN /\ batch' = [counted EXCEPT !.active = FALSE, !.reported = TRUE]
            /\ tasks' = tasks (-) SetToBag({t})
       ELSE /\ batch' = [counted EXCEPT !.queue = Tail(@),
                                         !.attempted = Append(@, Head(batch.queue).id)]
            /\ tasks' = AddCopies(tasks (-) SetToBag({t}),
                           handleVerifyMessage(Head(batch.queue), "batch",
                                               batch.currentBlock), 1)

\* The query has answered: verifyMessageOnChain returns, handleVerifyMessage
\* folds the result into the store and returns it to its caller.
VerifyDone(t) ==
  /\ Quiescent
  /\ BagIn(t, tasks) /\ t.kind = "verify"
  /\ LET storedData == LedgerQuery(t.cur.messageId)
         result == verifyMessageOnChain(TRUE, storedData, t.cur.messageHash, t.currentBlock)
     IN /\ chainRecord' = storedData
        /\ verifyArgs' = [called |-> TRUE, api |-> TRUE, messageId |-> t.cur.messageId,
                          localHash |-> t.cur.messageHash, currentBlock |-> t.currentBlock]
        /\ verifyResult' = result
        /\ IF result.verified
             THEN UpdateStatus(t.cur.messageId, "verified", NoBlock, NoId,
                               [set |-> TRUE, verified |-> TRUE, expired |-> result.expired])
           ELSE IF result.expired
             THEN UpdateStatus(t.cur.messageId, t.status, NoBlock, NoId,
                               [set |-> TRUE, verified |-> FALSE, expired |-> TRUE])
           ELSE UNCHANGED <<messages, msgsDirty, lastUpdate>>
        /\ IF t.caller = "batch"
             THEN VerifyAllContinue(t, result)
             ELSE /\ tasks' = tasks (-) SetToBag({t})
                  /\ batch' = batch
  /\ UNCHANGED <<keyVars, contactVars, cryptoVars, address, storage, isAccountSwitchingRef, previousAddressRef,
                 rAddress, rMessages, depAddr, pc, relayVars, gossipVars,
                 ghostVars, blockNumber, now, ledger,
                 filter, contactAddress, view, selectedMessage, p2pSend>>

\* ---------------------------------------------------- chat controls
\* setFilter(f) and the re-render of ChatInterface that follows
setFilter(f) ==
  /\ Quiescent
  /\ f # filter
  /\ filter' = f
  /\ view' = conversationMessages(rMessages, rAddress, contactAddress, f)
  /\ UNCHANGED <<storeVars, relayVars, gossipVars, tasks, ghostVars, verifyVars,
                 sendVars, keyVars, contactVars, cryptoVars, contactAddress, selectedMessage, batch, p2pSend>>

\* ChatInterface is given another contactAddress.
openChat(c) ==
  /\ Quiescent
  /\ c # contactAddress
  /\ c # rAddress
  /\ contactAddress' = c
  /\ view' = conversationMessages(rMessages, rAddress, c, filter)
  /\ UNCHANGED <<storeVars, relayVars, gossipVars, tasks, ghostVars, verifyVars,
                 sendVars, keyVars, contactVars, cryptoVars, filter, selectedMessage, batch, p2pSend>>

\* ------------------------------------------------ outbound transports
\* publishMessage(recipient, message): throws without a client and when
\* the relay's publish rejects (ok is the relay's answer).
publishMessage(ok) ==
  IF pubnubInstance = NoAddr THEN "throws"
  ELSE IF ok THEN "published" ELSE "throws"

\* publishToInbox(recipient, message): false without a running node and
\* when pubsub.publish rejects.
publishToInbox(ok) ==
  IF p2pTopic = NoAddr THEN FALSE ELSE ok

\* The sent entry i of the store is handed to a transport.
Outbound(i) ==
  /\ pc = "idle"
  /\ i \in 1..Len(messages)
  /\ messages[i].direction = "sent"

\* PubnubProvider.sendP2PMessage without its catch block.
PubnubSendP2PMessageRethrows(i, ok) ==
  /\ relayMounted
  /\ Outbound(i)
  /\ p2pSend' = [transport |-> "relay", available |-> pubnubInstance # NoAddr,
                 published |-> publishMessage(ok) = "published",
                 returned |-> IF publishMessage(ok) = "throws" THEN "none" ELSE "void",
                 threw |-> publishMessage(ok) = "throws"]
  /\ UNCHANGED <<storeVars, relayVars, gossipVars, tasks, ghostVars, verifyVars,
                 sendVars, keyVars, contactVars, cryptoVars, filter, contactAddress, view, selectedMessage,
                 batch>>

\* PubnubProvider.sendP2PMessage(message): try { await publishMessage }
\* catch { log }.  The recipient is a peer, so a publish that succeeds
\* reaches no inbox of this client.
PubnubSendP2PMessage(i, ok) ==
  /\ relayMounted
  /\ Outbound(i)
  /\ p2pSend' = [transport |-> "relay", available |-> pubnubInstance # NoAddr,
                 published |-> publishMessage(ok) = "published",
                 returned |-> "void", threw |-> FALSE]
  /\ UNCHANGED <<storeVars, relayVars, gossipVars, tasks, ghostVars, verifyVars,
                 sendVars, keyVars, contactVars, cryptoVars, filter, contactAddress, view, selectedMessage,
                 batch>>

\* Libp2pProvider.sendP2PMessage(message): false when not connected, else
\* what publishToInbox returns.
Libp2pSendP2PMessage(i, ok) ==
  /\ Outbound(i)
  /\ p2pSend' = [transport |-> "gossip", available |-> p2pTopic # NoAddr,
                 published |-> publishToInbox(ok),
                 returned |-> IF publishToInbox(ok) THEN "true" ELSE "false",
                 threw |-> FALSE]
  /\ UNCHANGED <<storeVars, relayVars, gossipVars, tasks, ghostVars, verifyVars,
                 sendVars, keyVars, contactVars, cryptoVars, filter, contactAddress, view, selectedMessage,
                 batch>>

\* ------------------------------------------------------------- keys
\* generateKeys up to its 500 ms await; addr is the address of the closure.
generateKeys ==
  /\ Quiescent
  /\ rAddress # NoAddr
  /\ keysMade < MaxKeys
  /\ BagCardinality(tasks) < MaxTasks
  /\ ~(\E t \in BagToSet(tasks) : t.kind = "genKeys")
  /\ tasks' = AddCopies(tasks, [kind |-> "genKeys", cur |-> NoPayload, rest |-> <<>>,
                                ids |-> {}, addr |-> rAddress, late |-> FALSE], 1)
  /\ UNCHANGED <<uiVars, storeVars, relayVars, gossipVars, ghostVars, verifyVars, sendVars,
                 keyVars, contactVars, cryptoVars>>

\* generateKeys after the await: a fresh pair is stored under the closure's
\* address and installed as the in-memory pair.
GenerateKeysDone(t) ==
  /\ pc = "idle"
  /\ BagIn(t, tasks) /\ t.kind = "genKeys"
  /\ keysMade' = keysMade + 1
  /\ keyStorage' = [keyStorage EXCEPT ![t.addr] = keysMade + 1]
  /\ keyPair' = keysMade + 1
  /\ tasks' = tasks (-) SetToBag({t})
  /\ UNCHANGED <<uiVars, storeVars, relayVars, gossipVars, ghostVars, verifyVars, sendVars,
                 contactVars, cryptoVars>>

clearKeys ==
  /\ Quiescent
  /\ rAddress # NoAddr
  /\ keyStorage' = [keyStorage EXCEPT ![rAddress] = NoKey]
  /\ keyPair' = NoKey
  /\ UNCHANGED <<uiVars, storeVars, relayVars, gossipVars, tasks, ghostVars, verifyVars,
                 sendVars, keysMade, contactVars, cryptoVars>>

\* ----------------------------------------------------------- contacts
\* The parties of the chain, and a set of them in the order of the
\* storage keys.
Parties == Addresses \cup Peers
RECURSIVE InKeyOrder(_)
InKeyOrder(S) ==
  IF S = {} THEN <<>>
  ELSE LET first == CHOOSE x \in S : \A y \in S : AddrRank[x] <= AddrRank[y]
       IN <<first>> \o InKeyOrder(S \ {first})

\* The extrinsics messaging.approveContact / removeContact of any party,
\* finalized.
ChainApprove(who, c) ==
  /\ who # c
  /\ <<who, c>> \notin approvedContacts
  /\ approvedContacts' = approvedContacts \cup {<<who, c>>}
  /\ UNCHANGED <<storeVars, relayVars, gossipVars, tasks, ghostVars, verifyVars, sendVars,
                 keyVars, uiVars, cryptoVars, contacts, userProfile>>

ChainRemove(who, c) ==
  /\ <<who, c>> \in approvedContacts
  /\ approvedContacts' = approvedContacts \ {<<who, c>>}
  /\ UNCHANGED <<storeVars, relayVars, gossipVars, tasks, ghostVars, verifyVars, sendVars,
                 keyVars, uiVars, cryptoVars, contacts, userProfile>>

\* the entry fetchContacts pushes (addedAt, the clock reading, left out)
Contact(contact, approvedByThem) ==
  [address |-> contact,
   status |-> IF approvedByThem THEN "active" ELSE "pending",
   approvedByMe |-> TRUE, approvedByThem |-> approvedByThem]

ContactsTask(a) ==
  [kind |-> "contacts", cur |-> NoPayload, rest |-> <<>>, ids |-> {}, addr |-> a,
   late |-> FALSE, stage |-> "entries", fetchedContacts |-> <<>>]

\* fetchContacts up to `await ...approvedContacts.entries(address)`: called
\* by the effect on (address, api), by refreshContacts and after
\* approveContact / removeContact.
fetchContacts ==
  /\ Quiescent
  /\ IF rAddress = NoAddr
       THEN /\ contacts' = <<>>
            /\ tasks' = tasks
       ELSE /\ BagCardinality(tasks) < MaxTasks
            /\ tasks' = AddCopies(tasks, ContactsTask(rAddress), 1)
            /\ contacts' = contacts
  /\ UNCHANGED <<storeVars, relayVars, gossipVars, ghostVars, verifyVars, sendVars,
                 keyVars, uiVars, cryptoVars, userProfile, approvedContacts>>

\* The entries query returns (ok) or throws: no entry or a throw sets the
\* empty list; else the loop starts.
ContactsEntries(t, ok) ==
  /\ pc = "idle"
  /\ BagIn(t, tasks) /\ t.kind = "contacts" /\ t.stage = "entries"
  /\ LET entries == InKeyOrder({c \in Parties : <<t.addr, c>> \in approvedContacts})
     IN IF ~ok \/ entries = <<>>
          THEN /\ contacts' = <<>>
               /\ tasks' = tasks (-) SetToBag({t})
          ELSE /\ contacts' = contacts
               /\ tasks' = (tasks (-) SetToBag({t}))
                             (+) SetToBag({[t EXCEPT !.stage = "approvals", !.rest = entries]})
  /\ UNCHANGED <<storeVars, relayVars, gossipVars, ghostVars, verifyVars, sendVars,
                 keyVars, uiVars, cryptoVars, userProfile, approvedContacts>>

\* `await ...approvedContacts(contact, address)` of the loop returns
\* or throws; after the last entry setContacts(fetchedContacts).
ContactsApproval(t, ok) ==
  /\ pc = "idle"
  /\ BagIn(t, tasks) /\ t.kind = "contacts" /\ t.stage = "approvals"
  /\ LET contact == Head(t.rest)
         approvedByThem == <<contact, t.addr>> \in approvedContacts
         fetchedContacts == Append(t.fetchedContacts, Contact(contact, approvedByThem))
     IN IF ~ok
          THEN /\ contacts' = <<>>
               /\ tasks' = tasks (-) SetToBag({t})
        ELSE IF Tail(t.rest) = <<>>
          THEN /\ contacts' = fetchedContacts
               /\ tasks' = tasks (-) SetToBag({t})
          ELSE /\ contacts' = contacts
               /\ tasks' = (tasks (-) SetToBag({t}))
                             (+) SetToBag({[t EXCEPT !.rest = Tail(@),
                                                     !.fetchedContacts = fetchedContacts]})
  /\ UNCHANGED <<storeVars, relayVars, gossipVars, ghostVars, verifyVars, sendVars,
                 keyVars, uiVars, cryptoVars, userProfile, approvedContacts>>

\* fetchUserProfile(address).then(setUserProfile) of the same effect
fetchOwnProfile ==
  /\ Quiescent
  /\ rAddress # NoAddr
  /\ BagCardinality(tasks) < MaxTasks
  /\ tasks' = AddCopies(tasks, [kind |-> "profile", cur |-> NoPayload, rest |-> <<>>,
                                ids |-> {}, addr |-> rAddress, late |-> FALSE], 1)
  /\ UNCHANGED <<storeVars, relayVars, gossipVars, ghostVars, verifyVars, sendVars,
                 keyVars, uiVars, cryptoVars, contactVars>>

setUserProfile(t) ==
  /\ pc = "idle"
  /\ BagIn(t, tasks) /\ t.kind = "profile"
  /\ userProfile' = t.addr
  /\ tasks' = tasks (-) SetToBag({t})
  /\ UNCHANGED <<storeVars, relayVars, gossipVars, ghostVars, verifyVars, sendVars,
                 keyVars, uiVars, cryptoVars, contacts, approvedContacts>>

\* Approvals the identity A is part of.
ContactPairs == {<<"A", "B">>, <<"A", "C">>, <<"B", "A">>}

NextContacts ==
  \/ \E a \in Addresses : connectWallet(a)
  \/ \E a \in Addresses : selectAccount(a)
  \/ disconnectWallet
  \/ Render
  \/ LoadMessagesEffect
  \/ SaveMessagesEffect
  \/ AccountSwitchEffect
  \/ \E pair \in ContactPairs : ChainApprove(pair[1], pair[2])
  \/ \E pair \in ContactPairs : ChainRemove(pair[1], pair[2])
  \/ fetchContacts
  \/ \E t \in BagToSet(tasks), ok \in BOOLEAN : ContactsEntries(t, ok)
  \/ \E t \in BagToSet(tasks), ok \in BOOLEAN : ContactsApproval(t, ok)

SpecContacts == Init /\ [][NextContacts]_vars

\* -------------------------------------------------------- encryption
\* The sender s encrypts message for the recipient r.
Encrypt(message, r, s, nonce) ==
  /\ sealed' = [called |-> TRUE, message |-> message, recipient |-> r, sender |-> s,
                nonce |-> nonce,
                out |-> encryptMessage(message, publicKey(r), secretKey(s), nonce)]
  /\ opened' = NoOpened
  /\ UNCHANGED <<storeVars, relayVars, gossipVars, tasks, ghostVars, verifyVars, sendVars,
                 keyVars, uiVars, contactVars>>

\* What can be made of an envelope on its way: the envelope, its ciphertext
\* with a byte cut off either end, with a byte added, replaced by a string
\* that is not base64, or its nonce replaced by another one.
Envelopes(e) ==
  LET c == e.ciphertext.bytes
  IN {e}
     \cup {[e EXCEPT !.ciphertext = encodeBase64(Tail(c))],
           [e EXCEPT !.ciphertext = encodeBase64(SubSeq(c, 1, Len(c) - 1))],
           [e EXCEPT !.ciphertext = encodeBase64(c \o <<c[Len(c)]>>)],
           [e EXCEPT !.ciphertext = NotBase64]}
     \cup {[e EXCEPT !.nonce = encodeBase64(<<n>>)] : n \in Nonces}

\* Somebody who holds the secret key of pair mine opens the envelope, taking
\* pair theirs for the sender's.
Decrypt(e, theirs, mine) ==
  /\ opened' = [called |-> TRUE, altered |-> (e # sealed.out), theirs |-> theirs,
                mine |-> mine,
                out |-> decryptMessage(e, publicKey(theirs), secretKey(mine))]
  /\ UNCHANGED <<storeVars, relayVars, gossipVars, tasks, ghostVars, verifyVars, sendVars,
                 keyVars, uiVars, contactVars, sealed>>

NextCrypto ==
  \/ \E message \in Plaintexts, r, s \in KeyPairs, nonce \in Nonces :
       Encrypt(message, r, s, nonce)
  \/ /\ sealed.called /\ ~sealed.out.threw
     /\ \E e \in Envelopes(sealed.out), theirs, mine \in KeyPairs : Decrypt(e, theirs, mine)

SpecCrypto == Init /\ [][NextCrypto]_vars

\* storedMessages[findIndex(m => m.id === id)].status = "delivered"
MarkDelivered(items, id) ==
  IF id \in Ids(items)
    THEN LET k == CHOOSE i \in 1..Len(items) :
                    items[i].id = id /\ \A j \in 1..(i - 1) : items[j].id # id
         IN [items EXCEPT ![k].status = "delivered"]
    ELSE items

\* PubnubProvider.handleDeliveryConfirmation for an event of the
\* confirmations channel of the identity the relay client was last
\* subscribed for: the in-memory update, then the update of the item in
\* localStorage.
handleDeliveryConfirmation(id) ==
  /\ pc = "idle"
  /\ relayMounted /\ pubnubInstance # NoAddr /\ rAddress # NoAddr
  /\ UpdateStatus(id, "delivered", NoBlock, NoId, NoUpdates)
  /\ storage' = IF storage[rAddress].has
                  THEN [storage EXCEPT ![rAddress].items = MarkDelivered(@, id)]
                  ELSE storage
  /\ UNCHANGED <<uiVars, keyVars, contactVars, cryptoVars, address, isAccountSwitchingRef, previousAddressRef,
                 rAddress, rMessages, depAddr, pc, relayVars, gossipVars, tasks,
                 ghostVars, verifyVars, now, ledger>>

\* The ids a delivery confirmation can name: those of the stored messages
\* and one that no stored message has.
ConfirmationIds == Ids(messages) \cup {"m2"}

\* A message of peer C that travels under the provisional id of C's send.
PeerProvisional == MkPayload(TempId(0), "C", "A", 1)

\* One identity sends, receives, refreshes and verifies.
NextSend ==
  \/ connectWallet("A")
  \/ Render
  \/ LoadMessagesEffect
  \/ SaveMessagesEffect
  \/ AccountSwitchEffect
  \/ \E t \in 1..MaxClock : handleSendMessage("C", NumDigests, t)
  \/ \E t \in BagToSet(tasks) : SendFinalized(t, TRUE)
  \/ \E t \in BagToSet(tasks), at \in 0..MaxClock : SendRejected(t, at)
  \/ PeerCommit(PeerProvisional)
  \/ fetchMessageHashes
  \/ \E t \in BagToSet(tasks) : FetchHashesDone(t)
  \/ initializeP2P
  \/ PublishToGossip(PeerProvisional)
  \/ \E t \in BagToSet(tasks), o \in Registered : ResumeTask(t, o)

SpecSend == Init /\ [][NextSend]_vars

\* One identity with the relay mounted sends, refreshes and receives
\* delivery confirmations.
NextConfirm ==
  \/ connectWallet("A")
  \/ Render
  \/ LoadMessagesEffect
  \/ SaveMessagesEffect
  \/ AccountSwitchEffect
  \/ \E t \in 1..MaxClock : handleSendMessage("C", NumDigests, t)
  \/ \E t \in BagToSet(tasks) : SendFinalized(t, TRUE)
  \/ \E t \in BagToSet(tasks), at \in 0..MaxClock : SendRejected(t, at)
  \/ fetchMessageHashes
  \/ \E t \in BagToSet(tasks) : FetchHashesDone(t)
  \/ \E id \in ConfirmationIds : handleDeliveryConfirmation(id)

SpecConfirm == InitInbound /\ [][NextConfirm]_vars

\* Two identities connect, switch, generate and clear keys.
NextKeys ==
  \/ \E a \in Addresses : connectWallet(a)
  \/ \E a \in Addresses : selectAccount(a)
  \/ disconnectWallet
  \/ Render
  \/ LoadMessagesEffect
  \/ SaveMessagesEffect
  \/ AccountSwitchEffect
  \/ generateKeys
  \/ \E t \in BagToSet(tasks) : GenerateKeysDone(t)
  \/ clearKeys

SpecKeys == Init /\ [][NextKeys]_vars

\* One identity with both transports sends and hands its messages to them.
NextTransport ==
  \/ connectWallet("A")
  \/ disconnectWallet
  \/ Render
  \/ LoadMessagesEffect
  \/ SaveMessagesEffect
  \/ AccountSwitchEffect
  \/ \E t \in 1..MaxClock : handleSendMessage("C", NumDigests, t)
  \/ \E t \in BagToSet(tasks) : SendFinalized(t, TRUE)
  \/ initializeP2P
  \/ \E i \in 1..MaxMsgs, ok \in BOOLEAN : PubnubSendP2PMessage(i, ok)
  \/ \E i \in 1..MaxMsgs, ok \in BOOLEAN : Libp2pSendP2PMessage(i, ok)

SpecTransport == InitInbound /\ [][NextTransport]_vars

\* The conversation view over stored collections of identity A: up to
\* MaxView received messages of the conversations with B and with C.
ViewMessage(i, from, ts, ver, ex) ==
  [MkStored([MkPayload("v" \o ToString(i), from, "A", 1) EXCEPT !.timestamp = ts],
            "sent", "A", "relay")
     EXCEPT !.verified = ver, !.expired = ex]
InitViewOf(collections) ==
  /\ \E c \in collections :
       InitStoreOf(FALSE, "A", [i \in 1..Len(c) |->
                                  ViewMessage(i, c[i].from, c[i].ts, c[i].ver, c[i].ex)])
  /\ InitVerifyIdle
  /\ InitLedger
  /\ InitKeys
  /\ InitContacts
  /\ InitCrypto
  /\ filter = "all"
  /\ contactAddress = "C"
  /\ view = conversationMessages(messages, "A", "C", "all")
  /\ selectedMessage = NoChatMessage
  /\ batch = NoBatch
  /\ p2pSend = NoSend

NextView ==
  \/ \E f \in MessageFilter : setFilter(f)
  \/ \E c \in {"B", "C"} : openChat(c)

\* Every arrival order of the timestamps, verified or not, none expired.
ArrivalOrders ==
  UNION {[1..n -> [from : {"B", "C"}, ts : 1..MaxStamp, ver : BOOLEAN, ex : {FALSE}]] :
           n \in 0..MaxView}
InitView == InitViewOf(ArrivalOrders)
SpecView == InitView /\ [][NextView]_vars

\* Every pair of flags, the messages arriving latest first.
FlagCollections ==
  UNION {[1..n -> [from : {"B", "C"}, ts : {MaxStamp}, ver : BOOLEAN, ex : BOOLEAN]] :
           n \in 0..MaxView}
InitFilter ==
  InitViewOf({[i \in 1..Len(c) |-> [c[i] EXCEPT !.ts = Len(c) + 1 - i]] :
                c \in FlagCollections})
SpecFilter == InitFilter /\ [][NextView]_vars

\* A message of peer C that travels under the id the ledger gave it when
\* C's commit was the first one.
PeerFinal == MkPayload(LedgerId(1), "C", "A", 1)

\* One identity receives, and verifies through the modal and in batches.
NextChat ==
  \/ connectWallet("A")
  \/ Render
  \/ LoadMessagesEffect
  \/ SaveMessagesEffect
  \/ AccountSwitchEffect
  \/ PeerCommit(PeerProvisional)
  \/ initializeP2P
  \/ \E p \in {PeerProvisional, PeerFinal} : PublishToGossip(p)
  \/ \E t \in BagToSet(tasks), o \in Registered : ResumeTask(t, o)
  \/ \E f \in MessageFilter : setFilter(f)
  \/ \E k \in 1..MaxMsgs : handleMessageClick(k)
  \/ closeModal
  \/ handleVerify
  \/ handleVerifyAll
  \/ \E t \in BagToSet(tasks) : VerifyDone(t)

SpecChat == Init /\ [][NextChat]_vars

\* One identity sends and opens the modal on what the view shows.
NextOwn ==
  \/ connectWallet("A")
  \/ Render
  \/ LoadMessagesEffect
  \/ SaveMessagesEffect
  \/ AccountSwitchEffect
  \/ \E t \in 1..MaxClock : handleSendMessage("C", NumDigests, t)
  \/ \E t \in BagToSet(tasks) : SendFinalized(t, TRUE)
  \/ \E k \in 1..MaxMsgs : handleMessageClick(k)
  \/ closeModal
  \/ handleVerify
  \/ \E t \in BagToSet(tasks) : VerifyDone(t)

SpecOwn == Init /\ [][NextOwn]_vars

\* The heads the chain reaches: inside the window of a record of block 0,
\* and the block the window ends at.
ExpiryHeights == {MESSAGE_HASH_EXPIRY_BLOCKS \div 2, MESSAGE_HASH_EXPIRY_BLOCKS}

\* What A's store holds of a message of C that came over gossip under the
\* id the ledger gave it, and of a message A sent that was finalized.
ReceivedFinal(n) ==
  [MkStored(MkPayload(LedgerId(n), "C", "A", 1), "received", "A", "gossip")
     EXCEPT !.decryptedContent = "plaintext", !.timestamp = n]
SentFinal(n) ==
  [OutboundMessage(n, "A", "C", NumDigests)
     EXCEPT !.id = LedgerId(n), !.status = "sent", !.blockNumber = 0]
RecordOf(m) ==
  [present |-> TRUE, hash |-> m.hash, blockNumber |-> 0, id |-> m.id,
   sender |-> m.sender, recipient |-> m.recipient]

\* A is connected and has exchanged messages with C; the ledger holds
\* their records, committed at block 0.
ExpiryCollections == {<<ReceivedFinal(1)>>, <<ReceivedFinal(1), ReceivedFinal(2)>>,
                      <<ReceivedFinal(1), SentFinal(2)>>}
InitExpiry ==
  /\ \E c \in ExpiryCollections :
       /\ InitStoreOf(FALSE, "A", c)
       /\ ledger = [i \in 1..Len(c) |-> RecordOf(c[i])]
  /\ InitVerifyIdle
  /\ now = MaxClock
  /\ lastUpdate = NoUpdate
  /\ InitKeys
  /\ InitContacts
  /\ InitCrypto
  /\ filter = "all"
  /\ contactAddress = "C"
  /\ view = conversationMessages(messages, "A", "C", "all")
  /\ selectedMessage = NoChatMessage
  /\ batch = NoBatch
  /\ p2pSend = NoSend

\* The chain moves on while A verifies, through the modal and in batches.
NextExpiry ==
  \/ Render
  \/ SaveMessagesEffect
  \/ \E h \in ExpiryHeights : NewHead(h)
  \/ \E k \in 1..MaxMsgs : handleMessageClick(k)
  \/ closeModal
  \/ handleVerify
  \/ handleVerifyAll
  \/ \E t \in BagToSet(tasks) : VerifyDone(t)

SpecExpiry == InitExpiry /\ [][NextExpiry]_vars

\* One identity connects, receives over gossip, fetches its profile and
\* contacts, disconnects and connects again.
NextReconnect ==
  \/ connectWallet("A")
  \/ disconnectWallet
  \/ Render
  \/ LoadMessagesEffect
  \/ SaveMessagesEffect
  \/ AccountSwitchEffect
  \/ initializeP2P
  \/ \E p \in InboxPayloads("A") : PublishToGossip(p)
  \/ \E t \in BagToSet(tasks), o \in Registered : ResumeTask(t, o)
  \/ ChainApprove("A", "C")
  \/ fetchContacts
  \/ \E t \in BagToSet(tasks), ok \in BOOLEAN : ContactsEntries(t, ok)
  \/ \E t \in BagToSet(tasks), ok \in BOOLEAN : ContactsApproval(t, ok)
  \/ fetchOwnProfile
  \/ \E t \in BagToSet(tasks) : setUserProfile(t)

SpecReconnect == Init /\ [][NextReconnect]_vars

\* The history backfill for one identity that stays connected: the relay
\* holds a history published while the identity was away, nobody publishes
\* again, and the provider has just been handed the address.
BackfillHistories ==
  {<<>>} \cup {<<p>> : p \in InboxPayloads("A")}
         \cup {<<p, q>> : p \in InboxPayloads("A"), q \in InboxPayloads("A")}
BackfillStores ==
  {<<>>, <<MkStored(MkPayload("m1", "C", "A", 1), "sent", "A", "relay")>>}
InitBackfill ==
  /\ \E h \in BackfillHistories, c \in BackfillStores :
       /\ storage = [x \in Addresses |-> IF x = "A" THEN [has |-> TRUE, items |-> c]
                                         ELSE [has |-> FALSE, items |-> <<>>]]
       /\ channel = [a \in Addresses |-> IF a = "A" THEN h ELSE <<>>]
       /\ activation = [valid |-> TRUE, who |-> "A", before |-> c]
  /\ address = "A"
  /\ messages = <<>>
  /\ isAccountSwitchingRef = FALSE
  /\ previousAddressRef = NoAddr
  /\ rAddress = NoAddr
  /\ rMessages = <<>>
  /\ msgsDirty = FALSE
  /\ depAddr = FALSE
  /\ pc = "idle"
  /\ relayMounted = TRUE
  /\ pubnubInstance = NoAddr
  /\ subscribedChannels = {}
  /\ inboxHandlers = EmptyBag
  /\ histTimer = FALSE
  /\ p2pTopic = NoAddr
  /\ p2pTimer = NoAddr
  /\ currentAddressRef = NoAddr
  /\ tasks = EmptyBag
  /\ trip = NoTrip
  /\ switchInFlight = FALSE
  /\ InitVerifyIdle
  /\ InitLedger
  /\ InitKeys
  /\ InitContacts
  /\ InitCrypto
  /\ InitUI

BackfillResume == \E t \in BagToSet(tasks), o \in ProfileOutcomes : ResumeTask(t, o)

NextBackfill ==
  \/ Render
  \/ LoadMessagesEffect
  \/ SaveMessagesEffect
  \/ AccountSwitchEffect
  \/ HistoryTimerFires
  \/ BackfillResume

SpecBackfill == InitBackfill /\ [][NextBackfill]_vars

\* A queued render is committed, a committed render's effects run, a timer
\* that stays set fires, and a promise that is awaited settles.
FairBackfill ==
  /\ SpecBackfill
  /\ WF_vars(Render)
  /\ WF_vars(LoadMessagesEffect)
  /\ WF_vars(SaveMessagesEffect)
  /\ WF_vars(AccountSwitchEffect)
  /\ WF_vars(HistoryTimerFires)
  /\ WF_vars(BackfillResume)

\* ================================================================ claims
NoDuplicateIds(msgs) ==
  \A i, j \in 1..Len(msgs) :
    (i # j /\ msgs[i].conversationId = msgs[j].conversationId) => msgs[i].id # msgs[j].id

Contains(msgs, m) == \E i \in 1..Len(msgs) : msgs[i] = m

\* The continuations that the step resumes.
Resumed(t) == CopiesIn(t, tasks') < CopiesIn(t, tasks)

\* An id of the form temp_<clock reading>.
IsProvisional(id) == \E t \in 0..MaxClock : id = TempId(t)

\* C1: identity A is active with a non-empty persisted collection; after a
\* switch to B, which has nothing persisted, and the switch back to A, once
\* every effect has run, A's persisted collection still holds every message
\* it held before the first switch.
C1_SwitchBackKeepsStore ==
  (trip.stage = 2 /\ Quiescent) =>
    \A i \in 1..Len(trip.saved) : Contains(StoredItems(trip.home), trip.saved[i])

\* C2: while an identity switch is in flight (the address changed, the new
\* identity's collection is not rendered yet) the save effect runs with
\* isAccountSwitchingRef set and writes no empty collection.
C2_NoEmptySaveWhileSwitching ==
  [][(pc = "save" /\ switchInFlight) =>
        /\ isAccountSwitchingRef
        /\ (storage' # storage => storage'[rAddress].items # <<>>)]_vars

\* C3: the collection persisted under an identity's key holds only messages
\* that were added while that identity was the active one.
C3_NoCrossIdentitySharing ==
  \A a \in Addresses :
    \A i \in 1..Len(StoredItems(a)) : StoredItems(a)[i].addedUnder = a

\* C4: once the effects of activating identity X (connect or switch) have
\* all run and nothing else has happened, the messages in memory are the
\* collection that was persisted under X's key before the activation.
C4_ReloadOnActivation ==
  (activation.valid /\ Quiescent) => messages = activation.before

\* C5: a delivery made after the same event was fully processed on the
\* same transport (its entry stored, every handler re-bound) adds no entry
\* when its handler resumes.
C5_SequentialDedupe ==
  [][\A t \in BagToSet(tasks) :
       (t.kind \in LiveKinds /\ t.late /\ tasks' = tasks (-) SetToBag({t}))
         => messages' = messages]_vars

\* C6: a handler that was suspended on the sender's profile while another
\* arrival of the same messageId (on the other transport, or a second one
\* on the gossip overlay) got stored adds no second entry when it resumes.
C6_InterleavedDedupe ==
  [][\A t \in BagToSet(tasks) :
       (/\ t.kind \in LiveKinds
        /\ ~t.late
        /\ \E i \in 1..Len(messages) :
             /\ messages[i].id = t.cur.messageId
             /\ (t.kind = "gossip" \/ messages[i].via = "gossip")
        /\ tasks' = tasks (-) SetToBag({t}))
         => messages' = messages]_vars

\* C7: in every reachable state no two entries of one conversation in the
\* in-memory collection have the same id.
C7_StoreUniqueness == NoDuplicateIds(messages)

\* C8: an entry is never appended whose id is new but whose (sender, hash,
\* conversationId) is that of a stored entry.
C8_TupleDedupe ==
  [][Len(messages') = Len(messages) + 1 =>
       LET m == messages'[Len(messages')]
       IN ~(/\ ~(m.id \in Ids(messages))
            /\ \E i \in 1..Len(messages) :
                 /\ messages[i].sender = m.sender
                 /\ messages[i].hash = m.hash
                 /\ messages[i].conversationId = m.conversationId)]_vars

\* C9: whenever record block + expiry window - current height <= 0, verify
\* returns expired, not verified and 0 blocks remaining, whatever the hashes.
BlocksLeft == chainRecord.blockNumber + MESSAGE_HASH_EXPIRY_BLOCKS - verifyArgs.currentBlock
Verifying == verifyArgs.called /\ verifyArgs.api /\ chainRecord.present

C9_ExpiryPrecedence ==
  (Verifying /\ BlocksLeft <= 0) =>
    /\ verifyResult.expired
    /\ ~verifyResult.verified
    /\ verifyResult.blocksRemaining = 0

C9_Witness ==
  /\ Verifying
  /\ BlocksLeft <= 0
  /\ chainRecord.hash = verifyArgs.localHash
  /\ verifyResult.expired

\* C10: inside the validity window, verify of a record whose hash equals
\* the local hash returns verified, not expired and
\* blocksRemaining = record block + expiry window - current height.
C10_VerifiedInsideWindow ==
  (Verifying /\ BlocksLeft > 0 /\ chainRecord.hash = verifyArgs.localHash) =>
    /\ verifyResult.verified
    /\ ~verifyResult.expired
    /\ verifyResult.blocksRemaining = BlocksLeft

C10_Witness ==
  /\ Verifying
  /\ chainRecord.blockNumber = 1000
  /\ verifyArgs.currentBlock = 1500
  /\ chainRecord.hash = verifyArgs.localHash
  /\ verifyResult.verified
  /\ verifyResult.blocksRemaining = 500

\* C11: inside the validity window verify reports verified exactly when
\* the two hash strings are equal after stripping an optional 0x prefix and
\* lowercasing (0xABCD matches abcd).
strip0x(h) == [h EXCEPT !.pfx = 0]
normalize(h) == toLowerCase(strip0x(h))

C11_HashCompareNormalized ==
  (Verifying /\ BlocksLeft > 0) =>
    (verifyResult.verified <=> normalize(chainRecord.hash) = normalize(verifyArgs.localHash))

\* C12: when the ledger submission of a send rejects (or the ledger is not
\* connected), the provisional entry of that send is in the store with
\* status failed once the rejection has been handled.
C12_SendRejectionMarksFailed ==
  [][\A t \in BagToSet(tasks) :
       (t.kind = "send" /\ Resumed(t) /\ ledger' = ledger) =>
         \E i \in 1..Len(messages') :
           /\ messages'[i].id = t.cur.messageId
           /\ messages'[i].status = "failed"]_vars

\* C13: when the submission of a send finalizes, the store holds the entry
\* of that send with status sending, verified and no blockNumber, and the
\* finalization gives that entry, in place, the ledger's id, the block of
\* the finalization and status sent.
C13_SendSuccess ==
  [][\A t \in BagToSet(tasks) :
       (t.kind = "send" /\ Resumed(t) /\ ledger' # ledger) =>
         LET r == ledger'[Len(ledger')]
         IN \E i \in 1..Len(messages) :
              /\ messages[i].id = t.cur.messageId
              /\ messages[i].status = "sending"
              /\ messages[i].verified
              /\ messages[i].blockNumber = NoBlock
              /\ Len(messages') = Len(messages)
              /\ messages'[i] = [messages[i] EXCEPT !.id = r.id, !.status = "sent",
                                                    !.blockNumber = r.blockNumber]]_vars

\* C14: verify of a message stored under a provisional id: when the ledger
\* holds a record with the message's hash and sender, the stored entry
\* takes that record's id; when it holds none, the call returns a result
\* that is an error, neither verified nor expired.
C14_ProvisionalIdResolved ==
  [][\A t \in BagToSet(tasks) :
       (t.kind = "verify" /\ Resumed(t) /\ IsProvisional(t.cur.messageId)) =>
         LET found == {k \in 1..Len(ledger) :
                         /\ normalize(ledger[k].hash) = normalize(t.cur.messageHash)
                         /\ ledger[k].sender = t.cur.sender}
         IN IF found # {}
              THEN \A i \in 1..Len(messages) :
                     messages[i].id = t.cur.messageId =>
                       \E k \in found : messages'[i].id = ledger[k].id
              ELSE /\ ~verifyResult'.verified
                   /\ ~verifyResult'.expired
                   /\ verifyResult'.error # "none"]_vars

\* C15: while an identity is active, an event published on the inbox
\* channel of another identity finds the relay client not subscribed to that
\* channel and is handed to no handler.
C15_PreviousChannelUnbound ==
  [][\A a \in Addresses :
       (channel'[a] # channel[a] /\ address \in Addresses /\ a # address) =>
         /\ ~(a \in subscribedChannels)
         /\ tasks' = tasks]_vars

\* C16: every message that an inbound path adds was handed to that path
\* while the identity in its recipient field was the active one.
C16_RecipientCheck ==
  [][\A t \in BagToSet(tasks) :
       (Resumed(t) /\ Len(messages') = Len(messages) + 1) =>
         t.cur.recipient = t.addr]_vars

\* C17: a handler or history fetch that was started under one identity adds
\* nothing once another identity (or none) is the active one.
C17_StaleResponseDiscarded ==
  [][\A t \in BagToSet(tasks) :
       (Resumed(t) /\ t.addr # address) => messages' = messages]_vars

\* C18: while an identity stays active and no effect of a render is
\* running, a step removes no stored message: the collection keeps every
\* entry, in its place, as the message it was.
C18_NoRemovalWhileActive ==
  [][(pc = "idle" /\ address # NoAddr /\ address' = address) =>
       /\ Len(messages') >= Len(messages)
       /\ \A i \in 1..Len(messages) :
            /\ messages'[i].hash = messages[i].hash
            /\ messages'[i].sender = messages[i].sender
            /\ messages'[i].conversationId = messages[i].conversationId]_vars

\* C19: an inbound message whose sender has no public key, or whose
\* decryption fails, is stored with the placeholder "[Sender public key not
\* found]" (no key) or "[Decryption failed]", and with the ciphertext, nonce
\* and hash of the inbound payload.
C19_PlaceholderKeepsPayload ==
  [][Len(messages') = Len(messages) + 1 =>
       LET m == messages'[Len(messages')]
       IN \A p \in Payloads :
            (p.messageId = m.id /\ m.direction = "received"
               /\ m.decryptedContent # "plaintext") =>
              /\ m.decryptedContent \in {"[Sender public key not found]",
                                          "[Decryption failed]"}
              /\ m.encryptedData = p.encryptedData
              /\ m.hash = p.messageHash]_vars

\* C20: updateMessageStatus(id, status, blockNumber, newId) with newId
\* different from id gives the entry of that id the new id in place: the
\* length is the same, every other entry is unchanged in its position, the
\* migrated entry keeps its message, and no entry has the old id.
C20_IdentifierMigration ==
  [][(lastUpdate' # lastUpdate /\ lastUpdate'.newId # NoId
        /\ lastUpdate'.newId # lastUpdate'.id) =>
       /\ Len(messages') = Len(messages)
       /\ \A i \in 1..Len(messages) :
            IF messages[i].id = lastUpdate'.id
              THEN /\ messages'[i].id = lastUpdate'.newId
                   /\ messages'[i].hash = messages[i].hash
                   /\ messages'[i].conversationId = messages[i].conversationId
                   /\ messages'[i].encryptedData = messages[i].encryptedData
              ELSE messages'[i] = messages[i]
       /\ ~(lastUpdate'.id \in Ids(messages'))]_vars

C20_Witness ==
  /\ lastUpdate.id = TempId(2)
  /\ lastUpdate.newId = LedgerId(2)
  /\ Len(messages) = 3
  /\ messages[2].id = LedgerId(2)
  /\ messages[2].status = "sent"
  /\ messages[3].via = "gossip"

\* C21: the status of every stored message is one of sending, sent,
\* verified, failed.
C21_StatusEnum ==
  \A i \in 1..Len(messages) :
    messages[i].status \in {"sending", "sent", "verified", "failed"}

\* C22: processing a delivery confirmation leaves verified, expired, hash
\* and blockNumber of every stored message unchanged and leaves every
\* message that is in status verified or failed in that status.
C22_ConfirmationIsHint ==
  [][(lastUpdate' # lastUpdate /\ lastUpdate'.status = "delivered") =>
       /\ Len(messages') = Len(messages)
       /\ \A i \in 1..Len(messages) :
            /\ messages'[i].verified = messages[i].verified
            /\ messages'[i].expired = messages[i].expired
            /\ messages'[i].hash = messages[i].hash
            /\ messages'[i].blockNumber = messages[i].blockNumber
            /\ (messages[i].status \in {"verified", "failed"} =>
                  messages'[i].status = messages[i].status)]_vars

\* C23: when no generateKeys call is in flight and no render or effect is
\* pending, the in-memory key pair is absent or is the pair persisted under
\* the active identity's keys.
C23_KeyPairOfActiveIdentity ==
  (Quiescent /\ ~(\E t \in BagToSet(tasks) : t.kind = "genKeys")) =>
    \/ keyPair = NoKey
    \/ address # NoAddr /\ keyPair = keyStorage[address]

\* C24: a relay or gossip send of an outbound message, whether the
\* transport is unavailable, the publish fails or it succeeds, returns to
\* its caller without an exception and leaves every stored message, in
\* memory and in localStorage, as it was.
C24_TransportFailureContained ==
  [][p2pSend' # p2pSend =>
       /\ ~p2pSend'.threw
       /\ p2pSend'.returned # "none"
       /\ messages' = messages
       /\ storage' = storage]_vars

C24_Witness ==
  /\ p2pSend.transport = "relay"
  /\ p2pSend.available
  /\ ~p2pSend.published
  /\ \E i \in 1..Len(messages) : messages[i].status = "sending"

\* The stored messages of the open conversation, and those the filter keeps.
InConversation(m) ==
  address # NoAddr /\ msgConversationId(m) = createConversationId(address, contactAddress)
Shown(f) == conversationFilter(messages, address, contactAddress, f)

\* C28: the view holds the messages of the open conversation that pass the
\* filter, each once, in ascending order of timestamp, whatever the order
\* of arrival in the store; a step that computes the view leaves the
\* stored collection as it was.
ViewSorted ==
  /\ \A i, j \in 1..Len(view) : i < j => view[i].timestamp <= view[j].timestamp
  /\ Len(view) = Len(Shown(filter))
  /\ {view[i].id : i \in 1..Len(view)} = Ids(Shown(filter))
C28_ViewSortedAndPure ==
  /\ []ViewSorted
  /\ [][view' # view => messages' = messages /\ storage' = storage]_vars

C28_Witness ==
  /\ Len(messages) = 3
  /\ messages[1].timestamp = 3 /\ messages[2].timestamp = 1 /\ messages[3].timestamp = 2
  /\ filter = "unverified"
  /\ Len(view) = 3
  /\ view[1].id = messages[2].id /\ view[2].id = messages[3].id
  /\ view[3].id = messages[1].id

\* C29: of the messages of the open conversation the view holds, under
\* filter verified exactly those with verified set, under expired exactly
\* those with expired set, under unverified exactly those with neither,
\* under all every one; every message of the conversation passes all and
\* at least one of the other three filters.
C29_FilterSemantics ==
  /\ \A i \in 1..Len(messages) :
       LET m == messages[i]
           shown == \E k \in 1..Len(view) : view[k].id = m.id
       IN /\ shown <=> /\ InConversation(m)
                       /\ CASE filter = "verified" -> m.verified
                            [] filter = "expired" -> m.expired
                            [] filter = "unverified" -> ~m.verified /\ ~m.expired
                            [] OTHER -> TRUE
          /\ InConversation(m) =>
               /\ m.id \in Ids(Shown("all"))
               /\ \E f \in MessageFilter \ {"all"} : m.id \in Ids(Shown(f))

C29_Witness ==
  /\ filter = "verified"
  /\ \E k \in 1..Len(view) : view[k].verified /\ view[k].expired
  /\ \E i \in 1..Len(messages) : InConversation(messages[i]) /\ ~messages[i].verified

\* C30: createConversationId gives the same key for (a, b) and (b, a):
\* for the active identity and its contact, and for the sender and the
\* recipient of every stored message.
C30_ConversationKeySymmetric ==
  /\ address # NoAddr =>
       createConversationId(address, contactAddress)
         = createConversationId(contactAddress, address)
  /\ \A i \in 1..Len(messages) :
       createConversationId(messages[i].sender, messages[i].recipient)
         = createConversationId(messages[i].recipient, messages[i].sender)

C30_Witness ==
  /\ contactAddress = "B"
  /\ \E k \in 1..Len(view) : view[k].sender = "B" /\ view[k].recipient = "A"

\* C25: a call of batch verify takes as its work list exactly the stored
\* messages of the open conversation that are received, not verified, not
\* expired and not in status sending or failed, each once; when the batch
\* ends every one of them was attempted and verified + expired + failed is
\* their number.
EligibleForBatch ==
  {i \in 1..Len(rMessages) :
     /\ InConversation(rMessages[i])
     /\ rMessages[i].sender # rAddress
     /\ ~rMessages[i].verified /\ ~rMessages[i].expired
     /\ rMessages[i].status \notin {"sending", "failed"}}
C25_BatchVerify ==
  [][/\ batch'.calls # batch.calls =>
          LET work == batch'.attempted \o [k \in 1..Len(batch'.queue) |-> batch'.queue[k].id]
          IN /\ Len(work) = Cardinality(EligibleForBatch)
             /\ {work[k] : k \in 1..Len(work)} = {rMessages[i].id : i \in EligibleForBatch}
     /\ (batch.active /\ ~batch'.active) =>
          /\ batch'.queue = <<>>
          /\ batch'.verified + batch'.expired + batch'.failed = Len(batch'.attempted)]_vars

\* C26: no ledger verification started from the modal is for a message
\* whose sender is the active identity, and none changes the verified or
\* expired field of such a message.
C26_OnlyNonAuthorVerifies ==
  [][\A t \in BagToSet(tasks) :
       (t.kind = "verify" /\ t.caller = "modal" /\ Resumed(t)) =>
         /\ t.cur.sender # address
         /\ \A i \in 1..Len(messages) :
              messages[i].sender = address =>
                /\ messages'[i].verified = messages[i].verified
                /\ messages'[i].expired = messages[i].expired
                /\ messages'[i].status = messages[i].status]_vars

\* C27: a verify whose message id has no ledger record returns verified
\* false, expired false and an error, and leaves the stored collection as
\* it was.
C27_NoRecordNoChange ==
  [][\A t \in BagToSet(tasks) :
       (t.kind = "verify" /\ Resumed(t) /\ ~LedgerQuery(t.cur.messageId).present) =>
         /\ ~verifyResult'.verified
         /\ ~verifyResult'.expired
         /\ verifyResult'.error # "none"
         /\ messages' = messages]_vars

C27_Witness ==
  /\ verifyArgs.called
  /\ ~chainRecord.present
  /\ verifyResult.error = "Message not found on blockchain"
  /\ \E i \in 1..Len(messages) :
       messages[i].id = verifyArgs.messageId /\ messages[i].status = "received"

\* C31: decrypting what encryptMessage returned with the sender's public
\* key and the recipient's secret key gives the plaintext back, for every
\* plaintext; with any other key pair, or with an altered ciphertext or
\* nonce, decryptMessage throws.
C31_RoundTrip ==
  /\ sealed.called => ~sealed.out.threw
  /\ opened.called =>
       IF ~opened.altered /\ opened.theirs = sealed.sender /\ opened.mine = sealed.recipient
       THEN ~opened.out.threw /\ opened.out.text = sealed.message
       ELSE opened.out.threw

\* C31 as the code has it: encryptMessage throws exactly on a plaintext
\* with an unpaired surrogate; decryptMessage gives the plaintext back when
\* the envelope is unaltered and its key pair yields the key the envelope
\* was made under (the sender's public with the recipient's secret key, or
\* the recipient's public with the sender's secret key), and throws otherwise.
C31_RoundTripSharedKey ==
  /\ sealed.called =>
       (sealed.out.threw <=> \E i \in 1..Len(sealed.message) : IsSurrogate(sealed.message[i]))
  /\ opened.called =>
       IF /\ ~opened.altered
          /\ {opened.theirs, opened.mine} = {sealed.sender, sealed.recipient}
       THEN ~opened.out.threw /\ opened.out.text = sealed.message
       ELSE opened.out.threw

\* The sender opens its own envelope with the recipient's public key.
C31_Witness ==
  /\ opened.called /\ ~opened.altered
  /\ sealed.sender # sealed.recipient
  /\ opened.theirs = sealed.recipient /\ opened.mine = sealed.sender
  /\ sealed.message = <<233, 97>>
  /\ opened.out.text = <<233, 97>>

ContactsSet(t) ==
  /\ t.kind = "contacts" /\ Resumed(t)
  /\ \A u \in BagToSet(tasks') : u.kind = "contacts" => CopiesIn(u, tasks') <= CopiesIn(u, tasks)

\* C32: when a fetchContacts call ends, every listed contact is active
\* exactly when the active identity approved it and it approved the active
\* identity on the ledger, and pending otherwise.
C32_ContactsFollowLedger ==
  [][\A t \in BagToSet(tasks) : ContactsSet(t) =>
       \A i \in 1..Len(contacts') :
         /\ contacts'[i].status \in {"active", "pending"}
         /\ contacts'[i].status = "active" <=>
              /\ <<address, contacts'[i].address>> \in approvedContacts
              /\ <<contacts'[i].address, address>> \in approvedContacts]_vars

LateVerifyFolded == \E t \in BagToSet(tasks) : t.kind = "verify" /\ t.late /\ Resumed(t)

\* C33: a stored message with expired = true keeps expired = true and
\* verified = false over every verify call, from the modal or from the
\* batch, that is made after it expired.
C33_ExpiredIsTerminal ==
  [][LateVerifyFolded =>
       \A i \in 1..Len(messages) :
         (messages[i].expired /\ i <= Len(messages')) =>
           messages'[i].expired /\ ~messages'[i].verified]_vars

\* C34: when a verify call returns, a verified result leaves the message
\* with status verified, verified = true, expired = false; an expired
\* result leaves it with verified = false, expired = true and the status it
\* had; any other result leaves it unchanged.
C34_FoldResult ==
  [][\A t \in BagToSet(tasks) : (t.kind = "verify" /\ Resumed(t)) =>
       \A i \in 1..Len(messages) : messages[i].id = t.cur.messageId =>
         IF verifyResult'.verified
           THEN /\ messages'[i].status = "verified"
                /\ messages'[i].verified /\ ~messages'[i].expired
         ELSE IF verifyResult'.expired
           THEN /\ ~messages'[i].verified /\ messages'[i].expired
                /\ messages'[i].status = messages[i].status
         ELSE messages'[i] = messages[i]]_vars

\* C35: every stored message with status verified has verified = true and
\* expired = false.
C35_VerifiedStatusMeansVerified ==
  \A i \in 1..Len(messages) :
    messages[i].status = "verified" => messages[i].verified /\ ~messages[i].expired

\* C36: no stored message has both verified = true and expired = true.
C36_NotVerifiedAndExpired ==
  \A i \in 1..Len(messages) : ~(messages[i].verified /\ messages[i].expired)

\* A message A sent, stored with verified = true, has been found expired.
C36_Witness ==
  \E i \in 1..Len(messages) :
    /\ messages[i].direction = "sent" /\ messages[i].expired /\ ~messages[i].verified
    /\ verifyArgs.called /\ verifyArgs.messageId = messages[i].id /\ verifyResult.expired

\* C37: when an identity is active, no switch is in flight and every
\* effect has run, the collection persisted under the active identity's
\* key is the collection in memory.
C37_PersistenceTracksMemory ==
  (address # NoAddr /\ Quiescent /\ ~switchInFlight) => StoredItems(address) = messages

\* C38: disconnectWallet clears the messages, the contacts and the profile
\* in memory and changes no persisted collection, nothing is persisted
\* while no identity is active, and when the effects of the next connect
\* have run the collection in memory and the collection persisted under the
\* identity's key are both the collection that was persisted when it
\* connected.
C38_DisconnectKeepsStorage ==
  /\ [][/\ (address # NoAddr /\ address' = NoAddr) =>
             /\ messages' = <<>> /\ contacts' = <<>> /\ userProfile' = NoAddr
             /\ storage' = storage
        /\ (address = NoAddr /\ address' = NoAddr) => storage' = storage]_vars
  /\ []((activation.valid /\ Quiescent) =>
          /\ messages = activation.before
          /\ StoredItems(address) = activation.before)

\* A has connected again over a persisted collection; its contacts and
\* profile of before the disconnect are gone.
C38_Witness ==
  /\ activation.valid /\ Quiescent
  /\ activation.before # <<>>
  /\ messages = activation.before
  /\ approvedContacts # {} /\ contacts = <<>>

\* C39: a call of updateMessageStatus keeps the length and the order of
\* the collection, leaves every entry with another id as it was, and, when
\* no entry has the id, leaves the collection as it was.
C39_UpdateTouchesOnlyTarget ==
  [][lastUpdate' # lastUpdate =>
       /\ Len(messages') = Len(messages)
       /\ \A i \in 1..Len(messages) :
            IF messages[i].id = lastUpdate'.id
              THEN /\ messages'[i].timestamp = messages[i].timestamp
                   /\ messages'[i].hash = messages[i].hash
                   /\ messages'[i].sender = messages[i].sender
              ELSE i <= Len(messages') /\ messages'[i] = messages[i]]_vars

\* A call whose id matched no entry of a collection of two.
C39_Witness ==
  /\ lastUpdate.id # "none" /\ lastUpdate.newId = NoId
  /\ Len(messages) >= 2
  /\ lastUpdate.id \notin Ids(messages)

\* C40: with one identity that stays connected, a finite relay history and
\* no further publication, the backfill comes to rest: from some point on
\* no backfill run is in flight, no backfill timer is set, no render is
\* queued, and so the collection no longer changes.
BackfillAtRest == tasks = EmptyBag /\ ~histTimer /\ Quiescent
C40_BackfillQuiesces == <>[]BackfillAtRest
C40_Witness ==
  /\ BackfillAtRest
  /\ Len(messages) = 3
  /\ \A i \in 1..Len(messages) : messages[i].via = "history"

====
